---- MODULE Spec2Model ----
(***************************************************************************)
(* StackSense backend: the recommendation pipeline of                      *)
(* app/services/recommendation_engine.py (RecommendationEngine) together   *)
(* with the remote evidence search of                                      *)
(* app/data/collection/github_collector.py (GitHubCollector) and the       *)
(* endpoint of app/routers/tech_stack.py.                                  *)
(*                                                                         *)
(* Spec: calls of generate_recommendation with a free environment.         *)
(* LocalSpec: find_similar_projects and _generate_local_recommendation     *)
(* called directly.  ReplaySpec: repeated calls with stubbed services.     *)
(* RouterSpec: the validation of a posted request.                         *)
(*                                                                         *)
(* Strings the code inspects character by character (technology tokens,    *)
(* constraint tokens) are sequences of one-character strings, so that      *)
(* str.lower() and the substring test (c.lower() in tech.lower()) are        *)
(* computed, not assumed.  Floating point confidence levels are kept in    *)
(* hundredths (0.8 is 80).                                                 *)
(***************************************************************************)
EXTENDS Integers, Sequences, FiniteSets, TLC

VARIABLES
    project_data,          \* RecommendationEngine.project_data (shared corpus records)
    project_embeddings,    \* RecommendationEngine.project_embeddings (one per record)
    pc,                    \* position of the request inside generate_recommendation
    request,               \* arguments of the running call
    github_outcome,        \* what the GitHub side answered in stage 1 (environment)
    github_projects,       \* local variable github_projects
    perplexity_response,   \* what Perplexity answered (environment), None before the attempt
    cohere_response,       \* what Cohere answered (environment), None before the attempt
    llm_recommendation,    \* local variable llm_recommendation
    embedding_works,       \* whether model.encode answered in this request (environment)
    local_rec,             \* local variable local_rec
    final_recommendation,  \* local variable final_recommendation
    result,                \* value returned to the caller, None until the call returns
    raised,                \* exception that left generate_recommendation, None if none
    calls,                 \* log of the collaborators invoked by the running call, in order
    nrequests,             \* number of calls of generate_recommendation started so far
    corpus_file,           \* tech_stacks.json as _load_project_data found it
    stubs,                 \* the fixed behaviour of the external services, None when free
    remembered,            \* a finished call a caller kept (arguments and outcome), or None
    clock,                 \* what time.time() returns, in whole seconds
    limiter,               \* the RateLimiter: max_requests, time_window, requests, lock
    threads,               \* the threads calling RateLimiter.is_allowed, each with its position
    history,               \* the calls of is_allowed that have returned, in order
    cache,                 \* the Redis store behind CacheService: key to serialized value
    database,              \* the rows of the table recommendations, in order of creation
    collector,             \* the fields of a StackOverflowCollector that outlive a call
    locals                 \* the local variables of the running collector or service call

\* the state of the other components of the backend
limiter_vars == <<clock, limiter, threads, history>>
service_vars == <<cache, database>>
collector_vars == <<collector, locals>>
other_components == <<limiter_vars, service_vars, collector_vars>>

vars == <<project_data, project_embeddings, pc, request, github_outcome,
          github_projects, perplexity_response, cohere_response,
          llm_recommendation, embedding_works, local_rec, final_recommendation,
          result, raised, calls, nrequests, corpus_file, stubs, remembered,
          clock, limiter, threads, history, cache, database, collector, locals>>

-----------------------------------------------------------------------------
(* Bounds of the model *)

MaxRequests == 2     \* calls of generate_recommendation on one engine
MaxCorpus == 2       \* records of the corpus file (a prefix of ProjectPool)
MaxLocalCorpus == 6  \* records of the corpus when the engine's methods are called directly
MaxTopN == 3         \* largest top_n passed to find_similar_projects directly
MaxReplayRequests == 3   \* calls on one engine whose external services are stubbed
MaxDescriptionLen == 11  \* characters of a description posted to the router
MaxHangRequests == 1     \* calls on one engine whose remote services may not respond
MaxCollectorCalls == 1   \* calls of a collector's methods, one after the other
MaxLimiterCalls == 3     \* calls of RateLimiter.is_allowed on one limiter
MaxClock == 3            \* seconds the clock of the rate limiter advances
MaxMiddlewareRequests == 2   \* requests that pass through the ErrorHandler
MaxServiceRequests == 2  \* calls of RecommendationService.get_recommendation

-----------------------------------------------------------------------------
(* Python values *)

None == [none |-> TRUE]

\* no rate limiter, cache, database or collector has been constructed
OtherComponentsAbsent ==
    /\ clock = 0
    /\ limiter = None
    /\ threads = <<>>
    /\ history = <<>>
    /\ cache = None
    /\ database = None
    /\ collector = None
    /\ locals = None

\* str.lower(), on the characters the model's tokens use
lower_char(ch) ==
    CASE ch = "G" -> "g"
      [] ch = "V" -> "v"
      [] ch = "D" -> "d"
      [] OTHER -> ch

lower(s) == [i \in 1..Len(s) |-> lower_char(s[i])]

\* Python's (sub in s) on strings: s has a contiguous run of characters equal to sub
str_in(sub, s) ==
    \E i \in 1..(Len(s) - Len(sub) + 1) : SubSeq(s, i, i + Len(sub) - 1) = sub

\* dict.get(key, default) on a mapping kept as a function
dict_get(d, key, default) == IF key \in DOMAIN d THEN d[key] ELSE default

RECURSIVE concat_all(_)
concat_all(seqs) ==
    IF seqs = <<>> THEN <<>> ELSE Head(seqs) \o concat_all(Tail(seqs))

\* how a block of code ends: it raises an exception or it yields a value
Raises(exception) == [raises |-> TRUE, exception |-> exception, value |-> None]
Returns(value) == [raises |-> FALSE, exception |-> "", value |-> value]

\* the classes derived from Exception that the modelled code can raise
ExceptionSubclasses ==
    {"Exception", "ValueError", "ConnectionError", "Timeout", "HTTPError",
     "JSONDecodeError", "AttributeError", "ApiError", "RuntimeError"}

\* an (except Exception) clause
except_Exception(exception) == exception \in ExceptionSubclasses

\* mutant: the clause names requests.exceptions.RequestException only
except_RequestException(exception) ==
    exception \in {"ConnectionError", "Timeout", "HTTPError"}

-----------------------------------------------------------------------------
(* RecommendationEngine.__init__: the category table and the corpus *)

\* keys of self.tech_categories, in insertion order
tech_categories ==
    <<"frontend", "backend", "database", "devops", "mobile",
      "language", "testing", "orm", "api">>

CategorySet == {tech_categories[i] : i \in 1..Len(tech_categories)}

Vue == <<"V", "u", "e">>
vue == <<"v", "u", "e">>
svelte == <<"s", "v", "e", "l", "t", "e">>
Django == <<"D", "j", "a", "n", "g", "o">>
django == <<"d", "j", "a", "n", "g", "o">>
gin == <<"g", "i", "n">>
Go == <<"G", "o">>
go == <<"g", "o">>
react == <<"r", "e", "a", "c", "t">>
preact == <<"p", "r", "e", "a", "c", "t">>
ember == <<"e", "m", "b", "e", "r">>

NoTechs == [c \in CategorySet |-> <<>>]

\* a key a record of the corpus may lack
Absent == [present |-> FALSE, value |-> <<>>]
Present(value) == [present |-> TRUE, value |-> value]

\* a record of tech_stacks.json: name, description and a list of technologies per
\* category (a missing category reads as [] through project.get(cat, [])); the file
\* gives no key 'technologies'
Project(name, description, frontend, backend, language) ==
    [name |-> name, description |-> description,
     techs |-> [NoTechs EXCEPT !["frontend"] = frontend,
                               !["backend"] = backend,
                               !["language"] = language],
     technologies |-> Absent]

ProjectPool ==
    <<Project("chat", "web app", <<Vue>>, <<django, gin>>, <<Go>>),
      Project("shop", "web shop", <<vue, svelte>>, <<Django>>, <<>>),
      Project("tool", "cli tool", <<>>, <<gin>>, <<go, Go>>),
      Project("blog", "web app", <<react, vue, svelte>>, <<>>, <<>>),
      Project("wiki", "web shop", <<react, preact, ember, vue>>, <<django>>, <<>>),
      Project("game", "mobile game", <<react, preact, svelte>>, <<>>, <<Go>>),
      Project("bare", "cli tool", <<>>, <<>>, <<>>)>>

\* the lists tech_stacks.json may hold: a prefix of the pool
Corpora ==
    {SubSeq(ProjectPool, 1, n) : n \in 0..(IF MaxCorpus < Len(ProjectPool)
                                             THEN MaxCorpus ELSE Len(ProjectPool))}

\* tech_stacks.json at construction: it cannot be read (missing, no JSON, neither a
\* list nor a dict with tech_stacks), or it holds a list of records
UnreadableFile == [readable |-> FALSE, records |-> <<>>]
ReadableFile(records) == [readable |-> TRUE, records |-> records]

CorpusFiles == {UnreadableFile} \cup {ReadableFile(c) : c \in Corpora}

\* _load_project_data: the list of the file; every failure is logged and gives []
load_project_data(file) == IF file.readable THEN file.records ELSE <<>>

\* SentenceTransformer.encode: a deterministic function of the text.  Embeddings are
\* unit vectors in the plane, named by their angle in steps of 45 degrees.
encode(text) ==
    CASE text = "web app" -> 0
      [] text = "web shop" -> 1
      [] text = "cli tool" -> 2
      [] text = "mobile game" -> 3
      [] OTHER -> 1

\* cosine_similarity of two such vectors, in hundredths
cosine_similarity(a, b) ==
    LET d == IF a < b THEN b - a ELSE a - b
    IN  CASE d = 0 -> 100
          [] d = 1 -> 71
          [] d = 2 -> 0
          [] OTHER -> 0 - 71

\* _precompute_project_embeddings
precompute_project_embeddings(data) ==
    [i \in 1..Len(data) |-> encode(data[i].description)]

-----------------------------------------------------------------------------
(* Inputs of generate_recommendation *)

Descriptions == {"web app", "cli tool"}

\* a constraints mapping is a sequence of (category, value) items in insertion order;
\* a value is a list of strings or a single string.  None and {} are both the empty
\* sequence: the code reads the argument only through the test (if constraints:).
ListValue(items) == [is_list |-> TRUE, items |-> items]
StrValue(s) == [is_list |-> FALSE, items |-> <<s>>]

ConstraintInputs ==
    {<<>>,
     <<<<"language", StrValue(go)>>>>,
     <<<<"frontend", ListValue(<<vue, svelte>>)>>, <<"backend", ListValue(<<Django>>)>>>>}

Requests ==
    {[description |-> d, requirements |-> <<"scalable">>, constraints |-> c] :
        d \in Descriptions, c \in ConstraintInputs}

-----------------------------------------------------------------------------
(* GitHubCollector: construction and search_projects *)

Repo(name, description, technologies, lookup) ==
    [name |-> name, description |-> description, technologies |-> technologies,
     lookup |-> lookup]

RepoChat == Repo("gh-chat", "chat server", <<"python">>, "ok")
RepoShop == Repo("gh-shop", "shop frontend", <<"vue">>, "ok")
RepoNoDescription == Repo("gh-bare", "", <<"go">>, "ok")
RepoNoTechnologies == Repo("gh-empty", "empty repository", <<>>, "ok")
RepoLookupFails == Repo("gh-gone", "deleted repository", <<"go">>, "error")

ItemLists ==
    {<<RepoNoDescription, RepoNoTechnologies>>, <<RepoLookupFails, RepoChat>>,
     <<RepoShop, RepoChat>>}

\* what the GitHub side does in one request: the constructor finds no token, or the
\* search request fails, or it is answered
GithubOutcomes ==
    {[kind |-> k, items |-> <<>>] :
        k \in {"no_token", "network_error", "rate_limited", "http_error", "no_items"}}
    \cup {[kind |-> "ok", items |-> items] : items \in ItemLists}

\* GitHubCollector.__init__: raises ValueError without GITHUB_TOKEN
github_collector_raises(outcome) == outcome.kind = "no_token"

\* get_repo_tech_stack: the entry built from a repository
get_repo_tech_stack(repo) ==
    [name |-> repo.name, description |-> repo.description,
     technologies |-> repo.technologies]

\* BaseCollector.validate_entry: name, description and technologies present and not empty
validate_entry(entry) ==
    /\ entry.name # ""
    /\ entry.description # ""
    /\ entry.technologies # <<>>

RECURSIVE collect_tech_stacks(_)
\* the loop over repos of search_projects: a repository whose lookup raises is skipped,
\* and so is one whose entry is not valid
collect_tech_stacks(repos) ==
    IF repos = <<>> THEN <<>>
    ELSE LET repo == Head(repos)
             rest == collect_tech_stacks(Tail(repos))
         IN  IF repo.lookup = "ok" /\ validate_entry(get_repo_tech_stack(repo))
             THEN <<get_repo_tech_stack(repo)>> \o rest
             ELSE rest

\* the try block of search_projects, lines 186-213
search_projects_body(outcome) ==
    CASE outcome.kind = "network_error" -> Raises("ConnectionError")  \* requests.get
      [] outcome.kind = "rate_limited" -> Raises("Exception")         \* line 198
      [] outcome.kind = "http_error" -> Raises("HTTPError")           \* raise_for_status
      [] outcome.kind = "no_items" -> Returns(<<>>)                   \* line 203
      [] OTHER -> Returns(collect_tech_stacks(outcome.items))

\* the except clause of search_projects, line 214
search_projects_catches(exception) == except_Exception(exception)

\* search_projects: an exception caught inside gives []
search_projects(outcome) ==
    LET body == search_projects_body(outcome)
    IN  IF body.raises /\ search_projects_catches(body.exception)
        THEN Returns(<<>>)
        ELSE body

\* the try block of stage 1, lines 78-80
fetch_evidence_body(outcome) ==
    IF github_collector_raises(outcome)
    THEN Raises("ValueError")
    ELSE search_projects(outcome)

\* the except clause of stage 1, line 81
fetch_evidence_catches(exception) == except_Exception(exception)

\* the collaborators stage 1 calls
fetch_evidence_calls(outcome) ==
    IF github_collector_raises(outcome)
    THEN <<"GitHubCollector">>
    ELSE <<"GitHubCollector", "search_projects">>

-----------------------------------------------------------------------------
(* The LLM providers *)

\* a JSON value an LLM may write
JsonObject(members) == [type |-> "object", members |-> members]
JsonArray == [type |-> "array", members |-> <<>>]

StackReact ==
    <<[category |-> "frontend", name |-> "React"],
      [category |-> "backend", name |-> "Node.js with Express"]>>
StackFlask == <<[category |-> "backend", name |-> "Flask"]>>

\* a JSON string
Str(s) == [str |-> s]

FullObject(stack, explanation) ==
    JsonObject([primary_tech_stack |-> stack, explanation |-> Str(explanation)])
NoStackObject == JsonObject([explanation |-> Str("because")])
NoExplanationObject == JsonObject([primary_tech_stack |-> StackReact])

\* the text of an answer, as the pieces the code distinguishes
Ws == [piece |-> "whitespace"]
FenceJson == [piece |-> "fence_json"]   \* three backquotes and the word json
Fence == [piece |-> "fence"]            \* three backquotes
Prose == [piece |-> "prose"]
Json(value) == [piece |-> "json", value |-> value]

AnswerTexts ==
    {<<Json(FullObject(StackReact, "because"))>>,
     <<Ws, FenceJson, Ws, Json(FullObject(StackFlask, "since")), Ws, Fence, Ws>>,
     <<Fence, Ws, Json(FullObject(StackReact, "because")), Ws, Fence>>,
     <<Prose, Json(FullObject(StackReact, "because"))>>,
     <<>>,
     <<Json(JsonArray)>>,
     <<Json(NoStackObject)>>,
     <<FenceJson, Json(NoExplanationObject), Fence>>}

RECURSIVE lstrip(_)
lstrip(text) ==
    IF text # <<>> /\ Head(text) = Ws THEN lstrip(Tail(text)) ELSE text

RECURSIVE rstrip(_)
rstrip(text) ==
    IF text # <<>> /\ text[Len(text)] = Ws
    THEN rstrip(SubSeq(text, 1, Len(text) - 1))
    ELSE text

\* str.strip()
strip(text) == rstrip(lstrip(text))

\* str.removeprefix of the opening fence
removeprefix(text) ==
    IF text # <<>> /\ Head(text) = FenceJson THEN Tail(text) ELSE text

\* str.removesuffix of the closing fence
removesuffix(text) ==
    IF text # <<>> /\ text[Len(text)] = Fence
    THEN SubSeq(text, 1, Len(text) - 1)
    ELSE text

\* json.loads accepts one JSON value with optional whitespace around it
json_loads_ok(text) ==
    LET t == strip(text) IN Len(t) = 1 /\ t[1].piece = "json"

json_loads(text) == strip(text)[1].value

\* llm_data.get(...) exists only on a JSON object (AttributeError otherwise)
has_get(value) == value.type = "object"

\* the end of a provider's try block, once the text arrived (lines 111-117 and
\* 138-144)
parse_llm_response(text, confidence) ==
    LET cleaned == removesuffix(removeprefix(strip(text)))
    IN  IF ~json_loads_ok(cleaned) THEN Raises("JSONDecodeError")
        ELSE IF ~has_get(json_loads(cleaned)) THEN Raises("AttributeError")
        ELSE LET llm_data == json_loads(cleaned).members
             IN  Returns(
                   [primary_tech_stack |-> dict_get(llm_data, "primary_tech_stack", <<>>),
                    detailed_explanation |-> dict_get(llm_data, "explanation", None),
                    confidence_level |-> confidence])

PerplexityConfidence == 80
CohereConfidence == 75

\* what a provider does in one request: the credential is missing, the call raises
\* (timeout or connection error; non-2xx status or an answer without the expected
\* envelope), or a text arrives
ProviderResponses ==
    {[kind |-> k, text |-> <<>>] :
        k \in {"no_key", "timeout", "http_error"}}
    \cup {[kind |-> "text", text |-> t] : t \in AnswerTexts}

\* the Perplexity try block, lines 89-118
perplexity_body(response) ==
    CASE response.kind = "no_key" -> Raises("Exception")        \* line 92
      [] response.kind = "timeout" -> Raises("Timeout")         \* requests.post
      [] response.kind = "http_error" -> Raises("HTTPError")    \* raise_for_status
      [] OTHER -> parse_llm_response(response.text, PerplexityConfidence)

\* the except clause of the Perplexity block, line 120
perplexity_catches(exception) == except_Exception(exception)

\* mutant: the Cohere block keeps the confidence of the block it was copied from
cohere_body_copied_confidence(response) ==
    CASE response.kind = "no_key" -> Raises("Exception")
      [] response.kind = "timeout" -> Raises("ApiError")
      [] response.kind = "http_error" -> Raises("ApiError")
      [] OTHER -> parse_llm_response(response.text, PerplexityConfidence)

\* the Cohere try block, lines 126-145
cohere_body(response) ==
    CASE response.kind = "no_key" -> Raises("Exception")        \* line 129
      [] response.kind = "timeout" -> Raises("ApiError")        \* co.chat
      [] response.kind = "http_error" -> Raises("ApiError")     \* co.chat
      [] OTHER -> parse_llm_response(response.text, CohereConfidence)

\* the except clause of the Cohere block, line 147
cohere_catches(exception) == except_Exception(exception)

\* whether the request left the process: the credential is read before the call
provider_called(response) == response.kind # "no_key"

-----------------------------------------------------------------------------
(* find_similar_projects *)

TopN == 5

RECURSIVE insert_ascending(_, _, _)
\* index i goes in front of the first index with a strictly greater key
insert_ascending(i, sorted, keys) ==
    IF sorted = <<>> THEN <<i>>
    ELSE IF keys[i] < keys[Head(sorted)] THEN <<i>> \o sorted
    ELSE <<Head(sorted)>> \o insert_ascending(i, Tail(sorted), keys)

RECURSIVE argsort_upto(_, _)
argsort_upto(keys, n) ==
    IF n = 0 THEN <<>> ELSE insert_ascending(n, argsort_upto(keys, n - 1), keys)

\* np.argsort: the indices in ascending order of their keys (equal keys keep their order)
argsort(keys) == argsort_upto(keys, Len(keys))

\* mutant: the [::-1] of line 63 is lost
not_reversed(s) == s

\* the slice [::-1]
reversed(s) == [i \in 1..Len(s) |-> s[Len(s) + 1 - i]]

first_n(s, n) == SubSeq(s, 1, IF n < Len(s) THEN n ELSE Len(s))

\* the similarities of the query to every record of the corpus
similarities(description, embeddings) ==
    [i \in 1..Len(embeddings) |-> cosine_similarity(encode(description), embeddings[i])]

\* find_similar_projects, as the indices into project_data of the records it returns
\* (it returns the records themselves, not copies)
find_similar_projects(data, embeddings, description, top_n) ==
    IF data = <<>> \/ Len(embeddings) = 0
    THEN <<>>
    ELSE first_n(reversed(argsort(similarities(description, embeddings))), top_n)

\* find_similar_projects reaches model.encode only behind the empty-corpus test
find_similar_projects_encodes(data, embeddings) ==
    ~(data = <<>> \/ Len(embeddings) = 0)

-----------------------------------------------------------------------------
(* _generate_local_recommendation *)

\* lines 201-207: the values of the constraints mapping, flattened
constraint_list(constraints) ==
    concat_all([i \in 1..Len(constraints) |-> constraints[i][2].items])

\* lines 211-214: the list written to project['technologies']
project_technologies(project) ==
    concat_all([i \in 1..Len(tech_categories) |-> project.techs[tech_categories[i]]])

\* mutant: the list is appended to the one the record already carries
with_technologies_appended(data, indices) ==
    [i \in 1..Len(data) |->
        IF \E k \in 1..Len(indices) : indices[k] = i
        THEN [data[i] EXCEPT !.technologies =
                 Present(@.value \o project_technologies(data[i]))]
        ELSE data[i]]

\* lines 210-214 on the shared records: every similar project gets 'technologies'
with_technologies(data, indices) ==
    [i \in 1..Len(data) |->
        IF \E k \in 1..Len(indices) : indices[k] = i
        THEN [data[i] EXCEPT !.technologies = Present(project_technologies(data[i]))]
        ELSE data[i]]

\* line 220: any(c.lower() in tech.lower() for c in constraint_list)
constrained_out(tech, clist) ==
    \E k \in 1..Len(clist) : str_in(lower(clist[k]), lower(tech))

\* Counter[key] += 1; a Counter is the sequence of its (key, count) items in
\* insertion order
counter_add(counter, key) ==
    IF \E k \in 1..Len(counter) : counter[k].key = key
    THEN [k \in 1..Len(counter) |->
            IF counter[k].key = key
            THEN [counter[k] EXCEPT !.count = @ + 1]
            ELSE counter[k]]
    ELSE Append(counter, [key |-> key, count |-> 1])

RECURSIVE count_techs(_, _, _)
\* lines 219-221 for one project and one category
count_techs(techs, clist, counter) ==
    IF techs = <<>> THEN counter
    ELSE count_techs(Tail(techs), clist,
                     IF constrained_out(Head(techs), clist)
                     THEN counter
                     ELSE counter_add(counter, lower(Head(techs))))

RECURSIVE count_projects(_, _, _, _)
\* lines 216-221 for one category
count_projects(projects, cat, clist, counter) ==
    IF projects = <<>> THEN counter
    ELSE count_projects(Tail(projects), cat, clist,
                        count_techs(Head(projects).techs[cat], clist, counter))

\* tech_counter: one Counter per category
tech_counter(projects, clist) ==
    [cat \in CategorySet |-> count_projects(projects, cat, clist, <<>>)]

RECURSIVE insert_descending(_, _)
\* an item goes in front of the first item with a strictly smaller count
insert_descending(item, sorted) ==
    IF sorted = <<>> THEN <<item>>
    ELSE IF Head(sorted).count < item.count THEN <<item>> \o sorted
    ELSE <<Head(sorted)>> \o insert_descending(item, Tail(sorted))

RECURSIVE most_common_upto(_, _)
most_common_upto(counter, n) ==
    IF n = 0 THEN <<>>
    ELSE insert_descending(counter[n], most_common_upto(counter, n - 1))

\* mutant: the items are taken in insertion order, not by count
most_common_unsorted(counter) == counter

\* Counter.most_common(): by decreasing count, equal counts in insertion order
most_common(counter) == most_common_upto(counter, Len(counter))

TechStackItem(name, cat) ==
    [name |-> name, category |-> cat, version |-> None, description |-> None]

RECURSIVE primary_from_counters(_, _)
\* lines 222-231: the most common technology of every category that has one
primary_from_counters(cats, counters) ==
    IF cats = <<>> THEN <<>>
    ELSE (IF counters[Head(cats)] # <<>>
          THEN <<TechStackItem(most_common(counters[Head(cats)])[1].key, Head(cats))>>
          ELSE <<>>)
         \o primary_from_counters(Tail(cats), counters)

RECURSIVE primary_from_first_project(_, _)
\* lines 233-242: the first technology of every category of the most similar project
primary_from_first_project(cats, fallback) ==
    IF cats = <<>> THEN <<>>
    ELSE (IF fallback.techs[Head(cats)] # <<>>
          THEN <<TechStackItem(fallback.techs[Head(cats)][1], Head(cats))>>
          ELSE <<>>)
         \o primary_from_first_project(Tail(cats), fallback)

\* lines 222-242
primary_stack_of(projects, counters) ==
    LET voted == primary_from_counters(tech_categories, counters)
    IN  IF voted = <<>> /\ projects # <<>>
        THEN primary_from_first_project(tech_categories, projects[1])
        ELSE voted

AlternativesPerCategory == 3

\* mutant: the slice starts at the most common technology, most_common()[0:3]
alternatives_from_the_top(counters) ==
    [cat \in CategorySet |->
        LET ranked == most_common(counters[cat])
            top == SubSeq(ranked, 1, IF Len(ranked) < AlternativesPerCategory
                                     THEN Len(ranked)
                                     ELSE AlternativesPerCategory)
        IN  [k \in 1..Len(top) |-> TechStackItem(top[k].key, cat)]]

\* lines 243-251: most_common()[1:4] of every category; a category without
\* alternatives has no key, which reads here as the empty list
alternatives_of(counters) ==
    [cat \in CategorySet |->
        LET ranked == most_common(counters[cat])
            tail == SubSeq(ranked, 2, IF Len(ranked) < AlternativesPerCategory + 1
                                      THEN Len(ranked)
                                      ELSE AlternativesPerCategory + 1)
        IN  [k \in 1..Len(tail) |-> TechStackItem(tail[k].key, cat)]]

NoAlternatives == [cat \in CategorySet |-> <<>>]

LocalConfidenceWithStack == 90
LocalConfidenceWithoutStack == 50

\* line 262
local_confidence(primary_stack) ==
    IF primary_stack # <<>> THEN LocalConfidenceWithStack ELSE LocalConfidenceWithoutStack

\* _generate_local_recommendation, given the similar projects found (already
\* carrying their 'technologies')
generate_local_recommendation(projects, constraints) ==
    LET counters == tech_counter(projects, constraint_list(constraints))
        primary_stack == primary_stack_of(projects, counters)
    IN  [primary_tech_stack |-> primary_stack,
         alternatives |-> alternatives_of(counters),
         explanation |-> [template |-> "local",
                          similar_names |-> [k \in 1..Len(projects) |-> projects[k].name]],
         confidence_level |-> local_confidence(primary_stack),
         similar_projects |-> projects]

-----------------------------------------------------------------------------
(* generate_recommendation *)

\* mutant: the test of line 124 is lost and Cohere is always attempted
cohere_always_attempted(llm) == TRUE

\* line 124: Cohere is attempted only while there is no recommendation
cohere_needed(llm) == llm = None

\* line 151: the local data set is used only while there is no recommendation
local_fallback_needed(llm) == llm = None

\* mutant: Cohere's answer is ignored and the local data set is used whenever
\* Perplexity gave no recommendation
after_providers_ignoring_llm(llm) == "LOCAL_FALLBACK"

FallbackConfidence == 50

\* mutant: the fallback to the local list is lost
similar_projects_evidence_only(evidence, local) == evidence

\* line 160: github_projects or local_rec.get('similar_projects', [])
similar_projects_of(evidence, local) ==
    IF evidence # <<>> THEN evidence ELSE local.similar_projects

\* mutant: the fallback dictionary is built without 'detailed_explanation'
assemble_local_incomplete(local, evidence) ==
    [primary_tech_stack |-> local.primary_tech_stack,
     alternatives |-> local.alternatives,
     explanation |-> "generated from our local dataset",
     confidence_level |-> FallbackConfidence,
     similar_projects |-> similar_projects_of(evidence, local)]

\* lines 154-161
assemble_local(local, evidence) ==
    [primary_tech_stack |-> local.primary_tech_stack,
     alternatives |-> local.alternatives,
     explanation |-> "generated from our local dataset",
     detailed_explanation |-> None,
     confidence_level |-> FallbackConfidence,
     similar_projects |-> similar_projects_of(evidence, local)]

\* mutant: the dictionary of stage 4 is built without 'alternatives'
assemble_llm_without_alternatives(llm, evidence) ==
    [primary_tech_stack |-> llm.primary_tech_stack,
     explanation |-> "generated by our StackSense AI",
     detailed_explanation |-> llm.detailed_explanation,
     confidence_level |-> llm.confidence_level,
     similar_projects |-> evidence]

\* lines 164-171
assemble_llm(llm, evidence) ==
    [primary_tech_stack |-> llm.primary_tech_stack,
     alternatives |-> NoAlternatives,
     explanation |-> "generated by our StackSense AI",
     detailed_explanation |-> llm.detailed_explanation,
     confidence_level |-> llm.confidence_level,
     similar_projects |-> evidence]

\* the state a provider attempt leads to
after_providers(llm) ==
    IF local_fallback_needed(llm) THEN "LOCAL_FALLBACK" ELSE "SUCCESS"

Init ==
    /\ corpus_file \in CorpusFiles
    /\ project_data = load_project_data(corpus_file)
    /\ project_embeddings = precompute_project_embeddings(project_data)
    /\ pc = "IDLE"
    /\ request = None
    /\ github_outcome = None
    /\ github_projects = <<>>
    /\ perplexity_response = None
    /\ cohere_response = None
    /\ llm_recommendation = None
    /\ embedding_works = TRUE
    /\ local_rec = None
    /\ final_recommendation = None
    /\ result = None
    /\ raised = None
    /\ calls = <<>>
    /\ nrequests = 0
    /\ stubs = None
    /\ remembered = None
    /\ OtherComponentsAbsent

\* a caller enters generate_recommendation, the engine having served fewer than max
\* calls (the engine serves one call at a time here)
NewRequestWithin(max) ==
    /\ pc \in {"IDLE", "DONE", "RAISED"}
    /\ nrequests < max
    /\ \E r \in Requests : request' = r
    /\ nrequests' = nrequests + 1
    /\ pc' = "FETCH_EVIDENCE"
    /\ github_outcome' = None
    /\ github_projects' = <<>>
    /\ perplexity_response' = None
    /\ cohere_response' = None
    /\ llm_recommendation' = None
    /\ embedding_works' = TRUE
    /\ local_rec' = None
    /\ final_recommendation' = None
    /\ result' = None
    /\ raised' = None
    /\ calls' = <<>>
    /\ UNCHANGED <<project_data, project_embeddings, corpus_file, stubs, remembered, other_components>>

NewRequest == NewRequestWithin(MaxRequests)

\* stage 1, lines 75-85, the GitHub side answering with outcome, the request standing
\* at the position at
FetchEvidenceAt(at, outcome) ==
    /\ pc = at
    /\ LET body == fetch_evidence_body(outcome)
       IN  /\ github_outcome' = outcome
           /\ calls' = calls \o fetch_evidence_calls(outcome)
           /\ github_projects' = IF body.raises THEN <<>> ELSE body.value
           /\ IF body.raises /\ ~fetch_evidence_catches(body.exception)
              THEN raised' = body /\ pc' = "RAISED"
              ELSE raised' = raised /\ pc' = "TRY_PERPLEXITY"
    /\ llm_recommendation' = None
    /\ UNCHANGED <<project_data, project_embeddings, request, perplexity_response,
                   cohere_response, embedding_works, local_rec, final_recommendation,
                   result, nrequests, corpus_file, stubs, remembered, other_components>>

FetchEvidenceWith(outcome) == FetchEvidenceAt("FETCH_EVIDENCE", outcome)

FetchEvidence == \E outcome \in GithubOutcomes : FetchEvidenceWith(outcome)

\* stage 2, first provider, lines 87-124, Perplexity answering with response
TryPerplexityWith(response) ==
    /\ pc = "TRY_PERPLEXITY"
    /\ LET body == perplexity_body(response)
       IN  /\ perplexity_response' = response
           /\ calls' = IF provider_called(response)
                       THEN Append(calls, "perplexity")
                       ELSE calls
           /\ llm_recommendation' = IF body.raises THEN llm_recommendation ELSE body.value
           /\ IF body.raises /\ ~perplexity_catches(body.exception)
              THEN raised' = body /\ pc' = "RAISED"
              ELSE /\ raised' = raised
                   /\ pc' = IF cohere_needed(llm_recommendation')
                            THEN "TRY_COHERE"
                            ELSE after_providers(llm_recommendation')
    /\ UNCHANGED <<project_data, project_embeddings, request, github_outcome,
                   github_projects, cohere_response, embedding_works, local_rec,
                   final_recommendation, result, nrequests, corpus_file, stubs,
                   remembered, other_components>>

TryPerplexity == \E response \in ProviderResponses : TryPerplexityWith(response)

\* stage 2, second provider, lines 125-151, Cohere answering with response
TryCohereWith(response) ==
    /\ pc = "TRY_COHERE"
    /\ LET body == cohere_body(response)
       IN  /\ cohere_response' = response
           /\ calls' = IF provider_called(response)
                       THEN Append(calls, "cohere")
                       ELSE calls
           /\ llm_recommendation' = IF body.raises THEN llm_recommendation ELSE body.value
           /\ IF body.raises /\ ~cohere_catches(body.exception)
              THEN raised' = body /\ pc' = "RAISED"
              ELSE /\ raised' = raised
                   /\ pc' = after_providers(llm_recommendation')
    /\ UNCHANGED <<project_data, project_embeddings, request, github_outcome,
                   github_projects, perplexity_response, embedding_works, local_rec,
                   final_recommendation, result, nrequests, corpus_file, stubs,
                   remembered, other_components>>

TryCohere == \E response \in ProviderResponses : TryCohereWith(response)

\* stage 3, lines 152-161, with _generate_local_recommendation and
\* find_similar_projects; an exception of model.encode is caught nowhere
LocalFallbackWith(works) ==
    /\ pc = "LOCAL_FALLBACK"
    /\ LET encodes == find_similar_projects_encodes(project_data, project_embeddings)
           indices == find_similar_projects(project_data, project_embeddings,
                                            request.description, TopN)
           data == with_technologies(project_data, indices)
           similar == [k \in 1..Len(indices) |-> data[indices[k]]]
           local == generate_local_recommendation(similar, request.constraints)
       IN  /\ embedding_works' = works
           /\ IF encodes /\ ~works
              THEN /\ raised' = Raises("RuntimeError")
                   /\ pc' = "RAISED"
                   /\ calls' = calls \o <<"_generate_local_recommendation",
                                          "find_similar_projects", "encode">>
                   /\ UNCHANGED <<project_data, local_rec, final_recommendation>>
              ELSE /\ project_data' = data
                   /\ local_rec' = local
                   /\ final_recommendation' = assemble_local(local, github_projects)
                   /\ pc' = "ASSEMBLE"
                   /\ calls' = calls \o
                         (IF encodes
                          THEN <<"_generate_local_recommendation",
                                 "find_similar_projects", "encode">>
                          ELSE <<"_generate_local_recommendation",
                                 "find_similar_projects">>)
                   /\ raised' = raised
    /\ UNCHANGED <<project_embeddings, request, github_outcome, github_projects,
                   perplexity_response, cohere_response, llm_recommendation,
                   result, nrequests, corpus_file, stubs, remembered, other_components>>

LocalFallback == \E works \in BOOLEAN : LocalFallbackWith(works)

\* stage 4, lines 163-171
CombineLLM ==
    /\ pc = "SUCCESS"
    /\ final_recommendation' = assemble_llm(llm_recommendation, github_projects)
    /\ pc' = "ASSEMBLE"
    /\ UNCHANGED <<project_data, project_embeddings, request, github_outcome,
                   github_projects, perplexity_response, cohere_response,
                   llm_recommendation, embedding_works, local_rec, result, raised,
                   calls, nrequests, corpus_file, stubs, remembered, other_components>>

\* lines 173-174
ReturnRecommendation ==
    /\ pc = "ASSEMBLE"
    /\ result' = final_recommendation
    /\ pc' = "DONE"
    /\ UNCHANGED <<project_data, project_embeddings, request, github_outcome,
                   github_projects, perplexity_response, cohere_response,
                   llm_recommendation, embedding_works, local_rec,
                   final_recommendation, raised, calls, nrequests, corpus_file,
                   stubs, remembered, other_components>>

Next ==
    \/ NewRequest
    \/ FetchEvidence
    \/ TryPerplexity
    \/ TryCohere
    \/ LocalFallback
    \/ CombineLLM
    \/ ReturnRecommendation

Spec == Init /\ [][Next]_vars

-----------------------------------------------------------------------------
(* The engine's methods called directly: find_similar_projects and            *)
(* _generate_local_recommendation on corpora larger than the N = 5 of line 208 *)

\* the lists tech_stacks.json may hold here: runs of consecutive records of the pool
LocalCorpora ==
    UNION {{SubSeq(ProjectPool, i, j) :
                j \in {k \in 0..Len(ProjectPool) : k + 1 >= i /\ k - i < MaxLocalCorpus}} :
           i \in 1..Len(ProjectPool)}

LocalCorpusFiles == {UnreadableFile} \cup {ReadableFile(c) : c \in LocalCorpora}

\* the query texts, the empty text among them
QueryTexts == {"", "web app", "cli tool", "mobile game"}

TopNs == 0..MaxTopN

LocalConstraintInputs ==
    ConstraintInputs \cup
    {<<<<"frontend", StrValue(vue)>>>>,
     <<<<"frontend", ListValue(<<react>>)>>>>,
     <<<<"language", StrValue(go)>>, <<"frontend", ListValue(<<vue>>)>>,
       <<"backend", ListValue(<<gin>>)>>>>}

LocalInit ==
    /\ corpus_file \in LocalCorpusFiles
    /\ project_data = load_project_data(corpus_file)
    /\ project_embeddings = precompute_project_embeddings(project_data)
    /\ pc = "IDLE"
    /\ request = None
    /\ github_outcome = None
    /\ github_projects = <<>>
    /\ perplexity_response = None
    /\ cohere_response = None
    /\ llm_recommendation = None
    /\ embedding_works = TRUE
    /\ local_rec = None
    /\ final_recommendation = None
    /\ result = None
    /\ raised = None
    /\ calls = <<>>
    /\ nrequests = 0
    /\ stubs = None
    /\ remembered = None
    /\ OtherComponentsAbsent

\* find_similar_projects(text, top_n), lines 57-64: the records themselves are returned
QueryCorpus ==
    /\ pc = "IDLE"
    /\ \E text \in QueryTexts, top_n \in TopNs, works \in BOOLEAN :
        LET encodes == find_similar_projects_encodes(project_data, project_embeddings)
            indices == find_similar_projects(project_data, project_embeddings,
                                             text, top_n)
        IN  /\ request' = [description |-> text, top_n |-> top_n]
            /\ embedding_works' = works
            /\ calls' = IF encodes THEN <<"find_similar_projects", "encode">>
                                   ELSE <<"find_similar_projects">>
            /\ IF encodes /\ ~works
               THEN /\ raised' = Raises("RuntimeError")
                    /\ result' = None
                    /\ pc' = "RAISED"
               ELSE /\ raised' = None
                    /\ result' = [k \in 1..Len(indices) |-> project_data[indices[k]]]
                    /\ pc' = "QUERIED"
    /\ local_rec' = None
    /\ UNCHANGED <<project_data, project_embeddings, github_outcome, github_projects,
                   perplexity_response, cohere_response, llm_recommendation,
                   final_recommendation, nrequests, corpus_file, stubs, remembered, other_components>>

\* _generate_local_recommendation(description, requirements, constraints), lines 198-275
Aggregate ==
    /\ pc = "IDLE"
    /\ \E description \in Descriptions \cup {"mobile game"},
          constraints \in LocalConstraintInputs, works \in BOOLEAN :
        LET encodes == find_similar_projects_encodes(project_data, project_embeddings)
        IN  /\ request' = [description |-> description, requirements |-> <<"scalable">>,
                           constraints |-> constraints]
            /\ embedding_works' = works
            /\ calls' = IF encodes
                        THEN <<"_generate_local_recommendation",
                               "find_similar_projects", "encode">>
                        ELSE <<"_generate_local_recommendation",
                               "find_similar_projects">>
            /\ IF encodes /\ ~works
               THEN /\ raised' = Raises("RuntimeError")
                    /\ result' = None
                    /\ local_rec' = None
                    /\ pc' = "RAISED"
                    /\ UNCHANGED project_data
               ELSE /\ raised' = None
                    /\ \E indices \in {find_similar_projects(project_data,
                                          project_embeddings, description, TopN)} :
                         /\ project_data' = with_technologies(project_data, indices)
                         /\ \E similar \in {[k \in 1..Len(indices) |->
                                               project_data'[indices[k]]]} :
                              local_rec' = generate_local_recommendation(similar,
                                                                         constraints)
                    /\ result' = local_rec'
                    /\ pc' = "AGGREGATED"
    /\ UNCHANGED <<project_embeddings, github_outcome, github_projects,
                   perplexity_response, cohere_response, llm_recommendation,
                   final_recommendation, nrequests, corpus_file, stubs, remembered, other_components>>

\* the caller is done with what the call gave it; the engine keeps its corpus as the
\* call left it and is ready for the next call
CallReturns ==
    /\ pc \in {"QUERIED", "AGGREGATED", "RAISED"}
    /\ pc' = "IDLE"
    /\ request' = None
    /\ result' = None
    /\ raised' = None
    /\ local_rec' = None
    /\ calls' = <<>>
    /\ embedding_works' = TRUE
    /\ UNCHANGED <<project_data, project_embeddings, github_outcome, github_projects,
                   perplexity_response, cohere_response, llm_recommendation,
                   final_recommendation, nrequests, corpus_file, stubs, remembered, other_components>>

LocalNext ==
    \/ QueryCorpus
    \/ Aggregate
    \/ CallReturns

LocalSpec == LocalInit /\ [][LocalNext]_vars

-----------------------------------------------------------------------------
(* generate_recommendation called again and again on one engine whose external *)
(* services are stubbed: each answers every call in the same way               *)

StubGithub ==
    {[kind |-> "no_items", items |-> <<>>], [kind |-> "ok", items |-> <<RepoShop, RepoChat>>]}

StubProvider ==
    {[kind |-> "no_key", text |-> <<>>],
     [kind |-> "timeout", text |-> <<>>],
     [kind |-> "text", text |-> <<Json(FullObject(StackReact, "because"))>>]}

\* a stubbed environment: what GitHub, Perplexity, Cohere and model.encode do
Stubs ==
    [github : StubGithub, perplexity : StubProvider, cohere : StubProvider,
     embedding : BOOLEAN]

ReplayInit ==
    /\ corpus_file \in CorpusFiles
    /\ project_data = load_project_data(corpus_file)
    /\ project_embeddings = precompute_project_embeddings(project_data)
    /\ pc = "IDLE"
    /\ request = None
    /\ github_outcome = None
    /\ github_projects = <<>>
    /\ perplexity_response = None
    /\ cohere_response = None
    /\ llm_recommendation = None
    /\ embedding_works = TRUE
    /\ local_rec = None
    /\ final_recommendation = None
    /\ result = None
    /\ raised = None
    /\ calls = <<>>
    /\ nrequests = 0
    /\ stubs \in Stubs
    /\ remembered = None
    /\ OtherComponentsAbsent

ReplayNewRequest == NewRequestWithin(MaxReplayRequests)

ReplayFetchEvidence == FetchEvidenceWith(stubs.github)

ReplayTryPerplexity == TryPerplexityWith(stubs.perplexity)

ReplayTryCohere == TryCohereWith(stubs.cohere)

ReplayLocalFallback == LocalFallbackWith(stubs.embedding)

\* a caller keeps the arguments and the outcome of a call that has ended, to compare
\* a later call with it
KeepOutcome ==
    /\ pc \in {"DONE", "RAISED"}
    /\ remembered = None
    /\ OtherComponentsAbsent
    /\ remembered' = [request |-> request, result |-> result, raised |-> raised,
                      call |-> nrequests]
    /\ UNCHANGED <<project_data, project_embeddings, pc, request, github_outcome,
                   github_projects, perplexity_response, cohere_response,
                   llm_recommendation, embedding_works, local_rec,
                   final_recommendation, result, raised, calls, nrequests,
                   corpus_file, stubs, other_components>>

ReplayNext ==
    \/ ReplayNewRequest
    \/ ReplayFetchEvidence
    \/ ReplayTryPerplexity
    \/ ReplayTryCohere
    \/ ReplayLocalFallback
    \/ CombineLLM
    \/ ReturnRecommendation
    \/ KeepOutcome

ReplaySpec == ReplayInit /\ [][ReplayNext]_vars

-----------------------------------------------------------------------------
(* The endpoint POST /api/v1/tech-stack/recommend of app/routers/tech_stack.py *)
(* with its request model TechStackRequest of app/schemas/recommendation.py    *)

DescriptionMinLength == 10
DescriptionMaxLength == 2000

\* the characters of a posted description: a blank and a letter
Characters == {" ", "a"}

PostedDescriptions == UNION {[1..n -> Characters] : n \in 0..MaxDescriptionLen}

RECURSIVE str_lstrip(_)
str_lstrip(chars) ==
    IF chars # <<>> /\ Head(chars) = " " THEN str_lstrip(Tail(chars)) ELSE chars

RECURSIVE str_rstrip(_)
str_rstrip(chars) ==
    IF chars # <<>> /\ chars[Len(chars)] = " "
    THEN str_rstrip(SubSeq(chars, 1, Len(chars) - 1))
    ELSE chars

\* str.strip() on a description
str_strip(chars) == str_rstrip(str_lstrip(chars))

\* the Field constraints of TechStackRequest.description
schema_accepts(description) ==
    /\ Len(description) >= DescriptionMinLength
    /\ Len(description) <= DescriptionMaxLength

\* mutant: the test of line 72 is lost
description_never_missing(description) == FALSE

\* line 72: not request.description.strip()
description_missing(description) == str_strip(description) = <<>>

RouterInit ==
    /\ corpus_file = UnreadableFile
    /\ project_data = <<>>
    /\ project_embeddings = <<>>
    /\ pc = "IDLE"
    /\ request = None
    /\ github_outcome = None
    /\ github_projects = <<>>
    /\ perplexity_response = None
    /\ cohere_response = None
    /\ llm_recommendation = None
    /\ embedding_works = TRUE
    /\ local_rec = None
    /\ final_recommendation = None
    /\ result = None
    /\ raised = None
    /\ calls = <<>>
    /\ nrequests = 0
    /\ stubs = None
    /\ remembered = None
    /\ OtherComponentsAbsent

\* a client posts a body with a description
PostRecommend ==
    /\ pc = "IDLE"
    /\ \E description \in PostedDescriptions :
          request' = [description |-> description, requirements |-> <<>>,
                      constraints |-> <<>>]
    /\ pc' = "SCHEMA"
    /\ UNCHANGED <<project_data, project_embeddings, github_outcome, github_projects,
                   perplexity_response, cohere_response, llm_recommendation,
                   embedding_works, local_rec, final_recommendation, result, raised,
                   calls, nrequests, corpus_file, stubs, remembered, other_components>>

\* the body is validated against TechStackRequest before the handler is entered; a
\* body that fails is answered 422 by the framework
ValidateSchema ==
    /\ pc = "SCHEMA"
    /\ IF schema_accepts(request.description)
       THEN pc' = "HANDLER" /\ raised' = raised
       ELSE pc' = "REJECTED" /\ raised' = Raises("RequestValidationError")
    /\ UNCHANGED <<project_data, project_embeddings, request, github_outcome,
                   github_projects, perplexity_response, cohere_response,
                   llm_recommendation, embedding_works, local_rec,
                   final_recommendation, result, calls, nrequests, corpus_file,
                   stubs, remembered, other_components>>

\* lines 71-73 and 102-115: a description that is blank raises ValidationException,
\* answered 422
ValidateDescription ==
    /\ pc = "HANDLER"
    /\ IF description_missing(request.description)
       THEN pc' = "REJECTED" /\ raised' = Raises("ValidationException")
       ELSE pc' = "CALL_ENGINE" /\ raised' = raised
    /\ UNCHANGED <<project_data, project_embeddings, request, github_outcome,
                   github_projects, perplexity_response, cohere_response,
                   llm_recommendation, embedding_works, local_rec,
                   final_recommendation, result, calls, nrequests, corpus_file,
                   stubs, remembered, other_components>>

\* lines 76-81 and 116-129: generate_recommendation is called with the keyword
\* processed_data, which the engine's signature (recommendation_engine.py, lines
\* 66-71) does not take: the TypeError is answered 500
CallEngine ==
    /\ pc = "CALL_ENGINE"
    /\ calls' = Append(calls, "generate_recommendation")
    /\ raised' = Raises("TypeError")
    /\ pc' = "FAILED"
    /\ UNCHANGED <<project_data, project_embeddings, request, github_outcome,
                   github_projects, perplexity_response, cohere_response,
                   llm_recommendation, embedding_works, local_rec,
                   final_recommendation, result, nrequests, corpus_file, stubs,
                   remembered, other_components>>

RouterNext ==
    \/ PostRecommend
    \/ ValidateSchema
    \/ ValidateDescription
    \/ CallEngine

RouterSpec == RouterInit /\ [][RouterNext]_vars

-----------------------------------------------------------------------------
(* generate_recommendation with its outbound calls in flight: a remote service *)
(* that does not respond never answers, and a call returns without an answer   *)
(* only when it was given a timeout                                            *)

SearchTimeout == 10
PerplexityTimeout == 30

\* the timeout argument of an outbound call
NoTimeout == [bounded |-> FALSE, seconds |-> 0]
Timeout(seconds) == [bounded |-> TRUE, seconds |-> seconds]

\* search_projects, github_collector.py line 191
search_timeout == Timeout(SearchTimeout)

\* get_repo_tech_stack, github_collector.py lines 102 and 107-110: requests.get is
\* given no timeout, and requests then waits for the server without limit
lookup_timeout == NoTimeout

\* recommendation_engine.py line 107
perplexity_timeout == Timeout(PerplexityTimeout)

\* recommendation_engine.py lines 132-135: no timeout is passed, the call is bounded
\* by the default of the Cohere client
cohere_timeout == [bounded |-> TRUE, seconds |-> "client default"]

RemoteServices == {"search", "lookup", "perplexity", "cohere"}

\* the remote side during a request: which services respond, and whether the
\* credentials (GITHUB_TOKEN, PERPLEXITY_API_KEY, COHERE_API_KEY) are set
RemoteSides == [responsive : SUBSET RemoteServices, credentials : BOOLEAN]

\* the ways an outbound call can return: with one of the answers of a service that
\* responds, or, the service not responding, with timed_out when the call has a
\* timeout; a call without timeout to a service that does not respond never returns
completions(service, timeout, answers, timed_out) ==
    IF service \in stubs.responsive THEN answers
    ELSE IF timeout.bounded THEN {timed_out}
    ELSE {}

SearchAnswers ==
    {[kind |-> "rate_limited", items |-> <<>>], [kind |-> "no_items", items |-> <<>>],
     [kind |-> "ok", items |-> <<RepoLookupFails, RepoChat>>],
     [kind |-> "ok", items |-> <<RepoShop, RepoChat>>]}

ProviderAnswers ==
    {[kind |-> "http_error", text |-> <<>>],
     [kind |-> "text", text |-> <<Json(FullObject(StackReact, "because"))>>]}

\* a lookup that timed out raises inside the loop of search_projects (lines 207-212)
\* like any other failed lookup
with_lookups_timed_out(outcome) ==
    [outcome EXCEPT !.items = [k \in 1..Len(@) |-> [@[k] EXCEPT !.lookup = "error"]]]

HangInit ==
    /\ corpus_file \in CorpusFiles
    /\ project_data = load_project_data(corpus_file)
    /\ project_embeddings = precompute_project_embeddings(project_data)
    /\ pc = "IDLE"
    /\ request = None
    /\ github_outcome = None
    /\ github_projects = <<>>
    /\ perplexity_response = None
    /\ cohere_response = None
    /\ llm_recommendation = None
    /\ embedding_works = TRUE
    /\ local_rec = None
    /\ final_recommendation = None
    /\ result = None
    /\ raised = None
    /\ calls = <<>>
    /\ nrequests = 0
    /\ stubs \in RemoteSides
    /\ remembered = None
    /\ OtherComponentsAbsent

HangNewRequest == NewRequestWithin(MaxHangRequests)

\* stage 1 up to the answer of the search request (github_collector.py lines 187-204):
\* an answer with repositories leads to their lookups, every other return ends the stage
HangSearch ==
    /\ pc = "FETCH_EVIDENCE"
    /\ \E outcome \in (IF stubs.credentials
                       THEN completions("search", search_timeout, SearchAnswers,
                                        [kind |-> "network_error", items |-> <<>>])
                       ELSE {[kind |-> "no_token", items |-> <<>>]}) :
          IF outcome.kind = "ok" /\ outcome.items # <<>>
          THEN /\ pc' = "AWAIT_LOOKUPS"
               /\ github_outcome' = outcome
               /\ UNCHANGED <<project_data, project_embeddings, request, github_projects,
                              perplexity_response, cohere_response, llm_recommendation,
                              embedding_works, local_rec, final_recommendation, result,
                              raised, calls, nrequests, corpus_file, stubs, remembered,
                              other_components>>
          ELSE FetchEvidenceWith(outcome)

\* the lookups of get_repo_tech_stack for the repositories found (github_collector.py
\* lines 206-213), and the rest of stage 1
HangLookups ==
    /\ pc = "AWAIT_LOOKUPS"
    /\ \E outcome \in completions("lookup", lookup_timeout, {github_outcome},
                                  with_lookups_timed_out(github_outcome)) :
          FetchEvidenceAt("AWAIT_LOOKUPS", outcome)

HangTryPerplexity ==
    \E response \in (IF stubs.credentials
                     THEN completions("perplexity", perplexity_timeout, ProviderAnswers,
                                      [kind |-> "timeout", text |-> <<>>])
                     ELSE {[kind |-> "no_key", text |-> <<>>]}) :
        TryPerplexityWith(response)

HangTryCohere ==
    \E response \in (IF stubs.credentials
                     THEN completions("cohere", cohere_timeout, ProviderAnswers,
                                      [kind |-> "timeout", text |-> <<>>])
                     ELSE {[kind |-> "no_key", text |-> <<>>]}) :
        TryCohereWith(response)

HangNext ==
    \/ HangNewRequest
    \/ HangSearch
    \/ HangLookups
    \/ HangTryPerplexity
    \/ HangTryCohere
    \/ LocalFallback
    \/ CombineLLM
    \/ ReturnRecommendation

\* a call that can take its next step takes it: the thread of the request runs
HangSpec == HangInit /\ [][HangNext]_vars /\ WF_vars(HangNext)

-----------------------------------------------------------------------------
(* The HTTP requests of the collectors: GitHubCollector.search_projects and     *)
(* get_popular_repos (github_collector.py), StackOverflowCollector._make_request *)
(* (stackoverflow_collector.py)                                                  *)

\* int(text) on the header values and message words of the model; any other text
\* makes int raise ValueError
int_text ==
    ("0" :> 0) @@ ("3" :> 3) @@ ("5" :> 5) @@ ("7" :> 7) @@ ("50" :> 50) @@ ("600" :> 600)
int_raises(text) == text \notin DOMAIN int_text

\* the headers of a response are a set of (name, value) pairs
has_header(headers, name) == \E h \in headers : h[1] = name
header(headers, name) == (CHOOSE h \in headers : h[1] = name)[2]

\* the body of a response: whether response.json() parses it, the keys of the
\* object and what the code reads of it; a message is a sequence of words
Body(keys, items, error_name, error_message) ==
    [json |-> TRUE, keys |-> keys, items |-> items, error_name |-> error_name,
     error_message |-> error_message]
NoBody == [Body({}, <<>>, "", <<>>) EXCEPT !.json = FALSE]

\* what requests.get does: it raises, or it returns a response
HttpRaises(exception) ==
    [raises |-> exception, status |-> 0, headers |-> {}, body |-> NoBody]
HttpResponse(status, headers, body) ==
    [raises |-> "", status |-> status, headers |-> headers, body |-> body]

\* an entry of the log of a collector call: a request sent or a sleep
Get(url) == [call |-> "requests.get", url |-> url, seconds |-> 0]
Sleep(seconds) == [call |-> "time.sleep", url |-> "", seconds |-> seconds]

\* what a method returns: a list, a dict or None
PyList(items) == [type |-> "list", items |-> items]
PyNone == [type |-> "NoneType", items |-> <<>>]
PyDict(body) == [type |-> "dict", items |-> body.items]

GithubResponses ==
    {HttpRaises("Timeout"), HttpRaises("ConnectionError"),
     HttpResponse(403, {<<"X-RateLimit-Remaining", "0">>, <<"X-RateLimit-Reset", "3">>},
                  NoBody),
     HttpResponse(403, {<<"X-RateLimit-Remaining", "0">>}, NoBody),
     HttpResponse(403, {<<"X-RateLimit-Remaining", "5">>}, NoBody),
     HttpResponse(500, {}, NoBody),
     HttpResponse(200, {}, NoBody),
     HttpResponse(200, {<<"X-RateLimit-Remaining", "50">>}, Body({"message"}, <<>>, "", <<>>)),
     HttpResponse(200, {<<"X-RateLimit-Remaining", "50">>},
                  Body({"items"}, <<RepoShop, RepoChat>>, "", <<>>)),
     HttpResponse(200, {<<"X-RateLimit-Remaining", "0">>},
                  Body({"items"}, <<RepoLookupFails, RepoChat>>, "", <<>>))}

\* lines 193-194 and 62-65: a 403 whose X-RateLimit-Remaining is 0
is_rate_limit_response(http) ==
    /\ http.status = 403
    /\ has_header(http.headers, "X-RateLimit-Remaining")
    /\ int_text[header(http.headers, "X-RateLimit-Remaining")] = 0

\* max(reset_time - time.time(), 0) + 1
wait_time(reset_time, now) == (IF reset_time - now > 0 THEN reset_time - now ELSE 0) + 1

\* search_projects, lines 187-204: what the answer to the search request is for the
\* rest of the method
github_search_outcome(http) ==
    CASE http.raises # "" -> [kind |-> "network_error", items |-> <<>>]
      [] is_rate_limit_response(http) -> [kind |-> "rate_limited", items |-> <<>>]
      [] http.status >= 400 \/ ~http.body.json -> [kind |-> "http_error", items |-> <<>>]
      [] "items" \notin http.body.keys -> [kind |-> "no_items", items |-> <<>>]
      [] OTHER -> [kind |-> "ok", items |-> http.body.items]

\* mutant: search_projects waits for the reset and searches again, as
\* get_popular_repos does
sleep_and_search_again(seconds) == <<Sleep(seconds), Get("search/repositories")>>

\* search_projects, lines 195-198: on a rate-limit response the wait is computed and
\* logged, then the method raises; it neither sleeps nor sends another request
search_after_rate_limit(seconds) == <<>>

\* the log of search_projects: the search request, then what a rate-limit response
\* brings, or one lookup per repository found
search_projects_log(http, now) ==
    <<Get("search/repositories")>> \o
    (IF http.raises = "" /\ is_rate_limit_response(http)
     THEN search_after_rate_limit(
              wait_time(IF has_header(http.headers, "X-RateLimit-Reset")
                        THEN int_text[header(http.headers, "X-RateLimit-Reset")]
                        ELSE 0, now))
     ELSE [k \in 1..Len(github_search_outcome(http).items) |-> Get("languages_url")])

GithubMaxRetries == 3
GithubRetryDelay == 2

\* one pass of the loop of get_popular_repos, lines 54-92, the search request
\* answered with http: the sleep of the pass if any, and whether the method returns
\* (and what) or the loop goes on
popular_repos_pass(http, attempt, retry_delay, now) ==
    CASE http.raises = "Timeout" ->
            IF attempt < GithubMaxRetries - 1
            THEN [log |-> <<Sleep(retry_delay)>>, returns |-> FALSE, value |-> PyNone,
                  retry_delay |-> retry_delay * 2]
            ELSE [log |-> <<>>, returns |-> TRUE, value |-> PyList(<<>>),
                  retry_delay |-> retry_delay]
      [] http.raises # "" ->
            [log |-> <<>>, returns |-> TRUE, value |-> PyList(<<>>),
             retry_delay |-> retry_delay]
      [] is_rate_limit_response(http) ->
            IF has_header(http.headers, "X-RateLimit-Reset")
            THEN [log |-> <<Sleep(wait_time(
                                int_text[header(http.headers, "X-RateLimit-Reset")], now))>>,
                  returns |-> FALSE, value |-> PyNone, retry_delay |-> retry_delay]
            ELSE \* KeyError at line 66, caught at line 94
                 [log |-> <<>>, returns |-> TRUE, value |-> PyList(<<>>),
                  retry_delay |-> retry_delay]
      [] http.status >= 400 \/ ~http.body.json ->
            [log |-> <<>>, returns |-> TRUE, value |-> PyList(<<>>),
             retry_delay |-> retry_delay]
      [] "items" \notin http.body.keys ->
            [log |-> <<>>, returns |-> TRUE, value |-> PyList(<<>>),
             retry_delay |-> retry_delay]
      [] OTHER ->
            [log |-> <<>>, returns |-> TRUE, value |-> PyList(http.body.items),
             retry_delay |-> retry_delay]

StackOverflowMaxRetries == 3
BaseDelay == 5
MaxDelay == 30
MinQuotaThreshold == 10
LongThrottle == 300

\* StackOverflowCollector.__init__, lines 26-38: the fields the requests read and
\* write; a quota not yet read is the empty sequence
NewStackOverflowCollector ==
    [backoff_time |-> 0, quota_remaining |-> <<>>, quota_max |-> <<>>]

Throttled(words) == Body({"error_id", "error_name", "error_message"}, <<>>,
                         "throttle_violation", words)

StackOverflowResponses ==
    {HttpRaises("Timeout"), HttpRaises("ConnectionError"),
     HttpResponse(429, {<<"X-RateLimit-Reset", "7">>},
                  Throttled(<<"more", "requests", "available", "in", "600", "seconds">>)),
     HttpResponse(429, {}, Throttled(<<"more", "requests", "available", "in", "50", "seconds">>)),
     HttpResponse(429, {<<"X-RateLimit-Remaining", "50">>}, Throttled(<<"too", "many", "requests">>)),
     HttpResponse(429, {<<"X-RateLimit-Reset", "soon">>}, NoBody),
     HttpResponse(500, {}, NoBody),
     HttpResponse(200, {<<"X-RateLimit-Remaining", "3">>}, NoBody),
     HttpResponse(200, {<<"X-RateLimit-Remaining", "50">>, <<"X-RateLimit-Max", "600">>},
                  Body({"items"}, <<RepoChat>>, "", <<>>)),
     HttpResponse(200, {<<"X-RateLimit-Remaining", "50">>},
                  Body({"error_id", "error_message"}, <<>>, "", <<"bad", "key">>))}

\* response.headers.get(name, 0) as the text int() is given
header_or_zero(headers, name) == IF has_header(headers, name) THEN header(headers, name) ELSE "0"

\* self.backoff_time * 2 or self.base_delay, capped by max_delay (line 60)
exponential_backoff(backoff_time) ==
    LET doubled == IF backoff_time * 2 = 0 THEN BaseDelay ELSE backoff_time * 2
    IN  IF doubled < MaxDelay THEN doubled ELSE MaxDelay

\* _handle_rate_limit(response), lines 44-78: the fields after the call and the
\* sleeps of the call; an exception anywhere ends the method where it is raised
handle_rate_limit(self, http) ==
    LET remaining == header_or_zero(http.headers, "X-RateLimit-Remaining")
        maximum == header_or_zero(http.headers, "X-RateLimit-Max")
        reset == header_or_zero(http.headers, "X-RateLimit-Reset")
    IN  IF int_raises(remaining) THEN [self |-> self, log |-> <<>>]
        ELSE IF int_raises(maximum)
        THEN [self |-> [self EXCEPT !.quota_remaining = <<int_text[remaining]>>], log |-> <<>>]
        ELSE LET read == [self EXCEPT !.quota_remaining = <<int_text[remaining]>>,
                                      !.quota_max = <<int_text[maximum]>>]
                 low == IF int_text[remaining] < MinQuotaThreshold
                        THEN <<Sleep(BaseDelay * 2)>> ELSE <<>>
             IN  IF http.status = 429
                 THEN IF int_raises(reset) THEN [self |-> read, log |-> <<>>]
                      ELSE IF int_text[reset] > 0
                      THEN [self |-> [read EXCEPT !.backoff_time = int_text[reset]],
                            log |-> <<Sleep(int_text[reset])>> \o low]
                      ELSE [self |-> [read EXCEPT !.backoff_time =
                                                    exponential_backoff(self.backoff_time)],
                            log |-> <<Sleep(exponential_backoff(self.backoff_time))>> \o low]
                 ELSE [self |-> [read EXCEPT !.backoff_time = 0], log |-> low]

\* lines 139-146: int(error_message.split('available in ')[-1].split()[0]) of a
\* throttle_violation; any exception of the block is swallowed (except: pass)
throttle_wait(body) ==
    LET words == body.error_message
        found == {i \in 1..(Len(words) - 1) : words[i] = "available" /\ words[i + 1] = "in"}
        last == CHOOSE i \in found : \A j \in found : j <= i
        rest == IF found = {} THEN words ELSE SubSeq(words, last + 2, Len(words))
    IN  IF ~body.json \/ body.error_name # "throttle_violation" \/ rest = <<>>
           \/ int_raises(rest[1])
        THEN 0
        ELSE int_text[rest[1]]

RECURSIVE power_of_two(_)
power_of_two(n) == IF n = 0 THEN 1 ELSE 2 * power_of_two(n - 1)

\* mutant: the test lets one more invocation through
retries_exceeded(retry_count) == retry_count > StackOverflowMaxRetries

\* line 111
retries_exhausted(retry_count) == retry_count >= StackOverflowMaxRetries

\* one invocation of _make_request that sends its request (lines 115-172), answered
\* with http: the fields after it, its sleeps, and whether it returns (and what) or
\* calls itself with retry_count + 1
make_request_pass(self, http, retry_count) ==
    LET before == <<Sleep(IF self.backoff_time > 0 THEN self.backoff_time ELSE BaseDelay),
                    Get("questions")>>
        handled == handle_rate_limit(self, http)
    IN  CASE http.raises = "Timeout" ->
                [self |-> self, log |-> before \o <<Sleep(BaseDelay * power_of_two(retry_count))>>,
                 returns |-> FALSE, value |-> PyNone]
          [] http.raises # "" ->
                [self |-> self, log |-> before, returns |-> TRUE, value |-> PyNone]
          [] http.status = 429 ->
                [self |-> handled.self, log |-> before \o handled.log,
                 returns |-> throttle_wait(http.body) > LongThrottle, value |-> PyNone]
          [] http.status # 200 \/ ~http.body.json \/ "error_id" \in http.body.keys ->
                [self |-> handled.self, log |-> before \o handled.log,
                 returns |-> TRUE, value |-> PyNone]
          [] OTHER ->
                [self |-> handled.self, log |-> before \o handled.log,
                 returns |-> TRUE, value |-> PyDict(http.body)]

\* the seconds a log sleeps in all
RECURSIVE slept(_)
slept(log) ==
    IF log = <<>> THEN 0 ELSE Head(log).seconds + slept(Tail(log))

CollectorInit ==
    /\ project_data = <<>>
    /\ project_embeddings = <<>>
    /\ pc = "IDLE"
    /\ request = None
    /\ github_outcome = None
    /\ github_projects = <<>>
    /\ perplexity_response = None
    /\ cohere_response = None
    /\ llm_recommendation = None
    /\ embedding_works = TRUE
    /\ local_rec = None
    /\ final_recommendation = None
    /\ result = None
    /\ raised = None
    /\ calls = <<>>
    /\ nrequests = 0
    /\ corpus_file = UnreadableFile
    /\ stubs = None
    /\ remembered = None
    /\ clock \in {0, 2}
    /\ limiter = None
    /\ threads = <<>>
    /\ history = <<>>
    /\ cache = None
    /\ database = None
    /\ collector = NewStackOverflowCollector
    /\ locals = None

\* what a collector call leaves alone
engine_state ==
    <<project_data, project_embeddings, github_outcome, github_projects,
      perplexity_response, cohere_response, llm_recommendation, embedding_works,
      local_rec, final_recommendation, corpus_file, stubs, remembered>>

\* GitHubCollector.search_projects(query, limit), lines 172-216
SearchProjects ==
    /\ pc = "IDLE"
    /\ nrequests < MaxCollectorCalls
    /\ \E http \in GithubResponses :
          /\ request' = [method |-> "search_projects", answers |-> <<http>>]
          /\ calls' = search_projects_log(http, clock)
          /\ result' = PyList(search_projects(github_search_outcome(http)).value)
          /\ clock' = clock + slept(calls')
    /\ nrequests' = nrequests + 1
    /\ raised' = None
    /\ pc' = "RETURNED"
    /\ UNCHANGED <<engine_state, limiter, threads, history, service_vars, collector_vars>>

\* GitHubCollector.get_popular_repos(min_stars, language) is entered, lines 31-52
GetPopularRepos ==
    /\ pc = "IDLE"
    /\ nrequests < MaxCollectorCalls
    /\ request' = [method |-> "get_popular_repos", answers |-> <<>>]
    /\ locals' = [attempt |-> 0, retry_delay |-> GithubRetryDelay]
    /\ calls' = <<>>
    /\ result' = None
    /\ raised' = None
    /\ nrequests' = nrequests + 1
    /\ pc' = "POPULAR_REPOS"
    /\ UNCHANGED <<engine_state, limiter_vars, service_vars, collector>>

\* one pass of the loop (for attempt in range(max_retries)), lines 53-92; when the
\* last pass ends with continue the loop is exhausted and the method ends without a
\* return statement
PopularReposPass ==
    /\ pc = "POPULAR_REPOS"
    /\ \E http \in GithubResponses :
          LET pass == popular_repos_pass(http, locals.attempt, locals.retry_delay, clock)
              exhausted == locals.attempt + 1 >= GithubMaxRetries
          IN  /\ request' = [request EXCEPT !.answers = Append(@, http)]
              /\ calls' = calls \o <<Get("search/repositories")>> \o pass.log
              /\ clock' = clock + slept(pass.log)
              /\ locals' = [attempt |-> locals.attempt + 1, retry_delay |-> pass.retry_delay]
              /\ IF pass.returns
                 THEN result' = pass.value /\ pc' = "RETURNED"
                 ELSE IF exhausted
                 THEN result' = PyNone /\ pc' = "RETURNED"
                 ELSE result' = result /\ pc' = "POPULAR_REPOS"
    /\ UNCHANGED <<engine_state, raised, nrequests, limiter, threads, history,
                   service_vars, collector>>

\* the caller goes on with what the method returned: collect iterates over the result
\* of get_popular_repos (for repo in repos, lines 150-152), outside any try
CallerContinues ==
    /\ pc = "RETURNED"
    /\ IF request.method = "get_popular_repos" /\ result.type # "list"
       THEN raised' = Raises("TypeError") /\ pc' = "RAISED"
       ELSE raised' = raised /\ pc' = "IDLE"
    /\ UNCHANGED <<engine_state, request, result, calls, nrequests, limiter_vars,
                   service_vars, collector_vars>>

\* a caller calls StackOverflowCollector._make_request(endpoint, params); the
\* callers leave retry_count at its default 0
MakeRequest ==
    /\ pc = "IDLE"
    /\ nrequests < MaxCollectorCalls
    /\ request' = [method |-> "_make_request", answers |-> <<>>]
    /\ locals' = [retry_count |-> 0]
    /\ calls' = <<>>
    /\ result' = None
    /\ raised' = None
    /\ nrequests' = nrequests + 1
    /\ pc' = "MAKE_REQUEST"
    /\ UNCHANGED <<engine_state, limiter_vars, service_vars, collector>>

\* one invocation of _make_request(endpoint, params, retry_count), lines 109-172: it
\* returns None at once when the retries are exhausted, or sends its request and
\* returns or calls itself again
MakeRequestPass ==
    /\ pc = "MAKE_REQUEST"
    /\ IF retries_exhausted(locals.retry_count)
       THEN /\ result' = PyNone
            /\ pc' = "RETURNED"
            /\ UNCHANGED <<request, calls, clock, collector, locals>>
       ELSE \E http \in StackOverflowResponses :
               LET pass == make_request_pass(collector, http, locals.retry_count)
               IN  /\ request' = [request EXCEPT !.answers = Append(@, http)]
                   /\ calls' = calls \o pass.log
                   /\ clock' = clock + slept(pass.log)
                   /\ collector' = pass.self
                   /\ IF pass.returns
                      THEN result' = pass.value /\ pc' = "RETURNED" /\ locals' = locals
                      ELSE /\ result' = result
                           /\ pc' = "MAKE_REQUEST"
                           /\ locals' = [retry_count |-> locals.retry_count + 1]
    /\ UNCHANGED <<engine_state, raised, nrequests, limiter, threads, history,
                   service_vars>>

CollectorNext ==
    \/ SearchProjects
    \/ GetPopularRepos
    \/ PopularReposPass
    \/ MakeRequest
    \/ MakeRequestPass
    \/ CallerContinues

CollectorSpec == CollectorInit /\ [][CollectorNext]_vars

\* the thread running the call is scheduled: a step that can be taken is taken
CollectorFairSpec == CollectorSpec /\ WF_vars(CollectorNext)

-----------------------------------------------------------------------------
(* RateLimiter (middleware/rate_limiter.py): is_allowed called by several       *)
(* threads, cleanup called by is_allowed and by the owner of the limiter        *)

LimiterThreads == {"t1", "t2"}
IPs == {"10.0.0.1", "10.0.0.2"}
MaxRequestsChoices == {0, 1, 2}
TimeWindows == {0, 2}

No == ""

\* RateLimiter.__init__, lines 8-12; of the dict self.requests a key that is not
\* there is Absent, a key with its list of timestamps is Present(list)
NewRateLimiter(max_requests, time_window) ==
    [max_requests |-> max_requests, time_window |-> time_window,
     requests |-> [ip \in IPs |-> Absent], lock |-> No]

\* mutant: a timestamp exactly time_window old still counts
not_older(timestamps, current_time, time_window) ==
    SelectSeq(timestamps, LAMBDA timestamp : current_time - timestamp <= time_window)

\* lines 26-29 and 44-47: the timestamps younger than the window
unexpired(timestamps, current_time, time_window) ==
    SelectSeq(timestamps, LAMBDA timestamp : current_time - timestamp < time_window)

\* cleanup(), lines 38-54, at time current_time: every list is filtered, and the IPs
\* whose list became empty are deleted
cleanup(self, current_time) ==
    [self EXCEPT !.requests =
        [ip \in IPs |->
            IF /\ self.requests[ip].present
               /\ unexpired(self.requests[ip].value, current_time, self.time_window) # <<>>
            THEN Present(unexpired(self.requests[ip].value, current_time, self.time_window))
            ELSE Absent]]

\* mutant: the limit itself is let through
at_limit(timestamps, max_requests) == Len(timestamps) <= max_requests

\* line 32
under_limit(timestamps, max_requests) == Len(timestamps) < max_requests

\* mutant: a denied call records its timestamp too
denied_and_recorded(timestamps, current_time) == Append(timestamps, current_time)

\* lines 32-36: the list of a denied call is left as filtered
denied(timestamps, current_time) == timestamps

\* is_allowed(ip) from line 19 on, current_time read at line 16 and cleanup reading
\* the clock again (line 39) at cleanup_time: the limiter after the call and the
\* value returned
is_allowed(self, ip, current_time, cleanup_time) ==
    LET cleaned == cleanup(self, cleanup_time)
        listed == IF cleaned.requests[ip].present THEN cleaned.requests[ip].value ELSE <<>>
        kept == unexpired(listed, current_time, self.time_window)
    IN  IF under_limit(kept, self.max_requests)
        THEN [self |-> [cleaned EXCEPT !.requests[ip] = Present(Append(kept, current_time))],
              returns |-> TRUE]
        ELSE [self |-> [cleaned EXCEPT !.requests[ip] = Present(denied(kept, current_time))],
              returns |-> FALSE]

IdleThread == [pc |-> "idle", ip |-> No, current_time |-> 0]

LimiterInit ==
    /\ project_data = <<>>
    /\ project_embeddings = <<>>
    /\ pc = "IDLE"
    /\ request = None
    /\ github_outcome = None
    /\ github_projects = <<>>
    /\ perplexity_response = None
    /\ cohere_response = None
    /\ llm_recommendation = None
    /\ embedding_works = TRUE
    /\ local_rec = None
    /\ final_recommendation = None
    /\ result = None
    /\ raised = None
    /\ calls = <<>>
    /\ nrequests = 0
    /\ corpus_file = UnreadableFile
    /\ stubs = None
    /\ remembered = None
    /\ clock = 0
    /\ \E max_requests \in MaxRequestsChoices, time_window \in TimeWindows :
          limiter = NewRateLimiter(max_requests, time_window)
    /\ threads = [t \in LimiterThreads |-> IdleThread]
    /\ history = <<>>
    /\ cache = None
    /\ database = None
    /\ collector = None
    /\ locals = None

\* what the rate limiter leaves alone
not_limiter ==
    <<engine_state, pc, request, result, raised, calls, service_vars, collector_vars>>

\* a thread calls is_allowed(ip) and waits for the lock (line 15)
CallIsAllowed(t) ==
    /\ threads[t].pc = "idle"
    /\ nrequests < MaxLimiterCalls
    /\ \E ip \in IPs :
          threads' = [threads EXCEPT ![t] = [pc |-> "waiting", ip |-> ip, current_time |-> 0]]
    /\ nrequests' = nrequests + 1
    /\ UNCHANGED <<not_limiter, clock, limiter, history>>

\* the thread enters the with block and reads the clock, lines 15-16
AcquireLock(t) ==
    /\ threads[t].pc = "waiting"
    /\ limiter.lock = No
    /\ limiter' = [limiter EXCEPT !.lock = t]
    /\ threads' = [threads EXCEPT ![t].pc = "locked", ![t].current_time = clock]
    /\ UNCHANGED <<not_limiter, nrequests, clock, history>>

\* the rest of the with block, lines 19-36: cleanup reads the clock again; the lock
\* is released as the call returns
DecideAndRelease(t) ==
    /\ threads[t].pc = "locked"
    /\ LET call == is_allowed(limiter, threads[t].ip, threads[t].current_time, clock)
       IN  /\ limiter' = [call.self EXCEPT !.lock = No]
           /\ history' = Append(history, [ip |-> threads[t].ip,
                                          current_time |-> threads[t].current_time,
                                          end |-> clock, granted |-> call.returns])
    /\ threads' = [threads EXCEPT ![t] = IdleThread]
    /\ UNCHANGED <<not_limiter, nrequests, clock>>

\* the owner of the limiter calls cleanup() while no call of is_allowed is inside
\* the with block (tests/test_rate_limiter.py, lines 77-90)
Cleanup ==
    /\ limiter.lock = No
    /\ limiter' = cleanup(limiter, clock)
    /\ limiter' # limiter
    /\ UNCHANGED <<not_limiter, nrequests, clock, threads, history>>

\* a second passes
Tick ==
    /\ clock < MaxClock
    /\ clock' = clock + 1
    /\ UNCHANGED <<not_limiter, nrequests, limiter, threads, history>>

LimiterNext ==
    \/ \E t \in LimiterThreads : CallIsAllowed(t)
    \/ \E t \in LimiterThreads : AcquireLock(t)
    \/ \E t \in LimiterThreads : DecideAndRelease(t)
    \/ Cleanup
    \/ Tick

LimiterSpec == LimiterInit /\ [][LimiterNext]_vars

-----------------------------------------------------------------------------
(* ErrorHandler (middleware/error_handler.py): the middleware around an endpoint *)

\* the custom exceptions and the status_code their constructors set, lines 108-138
custom_status_code ==
    ("CustomException" :> 500) @@ ("ValidationException" :> 422) @@
    ("NotFoundException" :> 404) @@ ("AuthenticationException" :> 401) @@
    ("AuthorizationException" :> 403) @@ ("RateLimitException" :> 429)

\* error_mapping, lines 80-91
error_mapping ==
    ("ValueError" :> <<400, "Bad Request">>) @@ ("KeyError" :> <<400, "Bad Request">>) @@
    ("TypeError" :> <<400, "Bad Request">>) @@ ("AttributeError" :> <<400, "Bad Request">>) @@
    ("FileNotFoundError" :> <<404, "Not Found">>) @@
    ("PermissionError" :> <<403, "Forbidden">>) @@
    ("TimeoutError" :> <<504, "Gateway Timeout">>) @@
    ("ConnectionError" :> <<503, "Service Unavailable">>) @@
    ("MemoryError" :> <<507, "Insufficient Storage">>) @@
    ("NotImplementedError" :> <<501, "Not Implemented">>)

ExceptionTypes ==
    DOMAIN error_mapping \cup DOMAIN custom_status_code
        \cup {"RequestValidationError", "RuntimeError", "ZeroDivisionError"}

ExceptionMessages == {"Resource not found", "Access denied", "Too many requests", ""}

\* an exception object: its class, its message, and the status_code attribute that
\* the custom exceptions carry (0: the class has no such attribute)
Exception(type, message) ==
    [type |-> type, message |-> message,
     status_code |-> IF type \in DOMAIN custom_status_code
                     THEN custom_status_code[type] ELSE 0]

\* str(exc): the message; the repr of the key for a KeyError
str_exc(exc) ==
    IF exc.type = "KeyError" THEN "'" \o exc.message \o "'" ELSE exc.message

JSONResponse(status_code, error, detail) ==
    [status_code |-> status_code, error |-> error, detail |-> detail]

\* _handle_exception(exc), lines 68-106
handle_exception(exc) ==
    IF exc.type = "RequestValidationError"
    THEN JSONResponse(422, "Validation Error", "exc.errors()")
    ELSE IF exc.type \in DOMAIN error_mapping
    THEN JSONResponse(error_mapping[exc.type][1], error_mapping[exc.type][2], str_exc(exc))
    ELSE JSONResponse(500, "Internal Server Error", str_exc(exc))

\* what call_next(request) does: the endpoint returns its response or raises
EndpointOutcomes ==
    {[raises |-> FALSE, exception |-> Exception("", ""),
      response |-> JSONResponse(200, "", "")]}
    \cup {[raises |-> TRUE, exception |-> Exception(type, message),
           response |-> JSONResponse(0, "", "")] :
             type \in ExceptionTypes, message \in ExceptionMessages}

MiddlewareInit ==
    /\ project_data = <<>>
    /\ project_embeddings = <<>>
    /\ pc = "IDLE"
    /\ request = None
    /\ github_outcome = None
    /\ github_projects = <<>>
    /\ perplexity_response = None
    /\ cohere_response = None
    /\ llm_recommendation = None
    /\ embedding_works = TRUE
    /\ local_rec = None
    /\ final_recommendation = None
    /\ result = None
    /\ raised = None
    /\ calls = <<>>
    /\ nrequests = 0
    /\ corpus_file = UnreadableFile
    /\ stubs = None
    /\ remembered = None
    /\ OtherComponentsAbsent

\* ErrorHandler.__call__(request, call_next), lines 12-46
HandleRequest ==
    /\ nrequests < MaxMiddlewareRequests
    /\ \E outcome \in EndpointOutcomes :
          /\ request' = outcome
          /\ IF outcome.raises
             THEN /\ calls' = <<"call_next", "logger.error", "_handle_exception">>
                  /\ result' = handle_exception(outcome.exception)
             ELSE /\ calls' = <<"call_next", "logger.log_api_request">>
                  /\ result' = outcome.response
    /\ nrequests' = nrequests + 1
    /\ pc' = "ANSWERED"
    /\ UNCHANGED <<engine_state, raised, other_components>>

MiddlewareNext == HandleRequest

MiddlewareSpec == MiddlewareInit /\ [][MiddlewareNext]_vars

-----------------------------------------------------------------------------
(* RecommendationService.get_recommendation (services/recommendation.py) with   *)
(* its cache (services/cache_service.py) and its repository                      *)
(* (repositories/recommendation_repository.py).  The constructor of the service  *)
(* passes an argument to RecommendationEngine, whose constructor takes none, so  *)
(* a service that exists has its members put in place by its owner: the engine   *)
(* is any object with a generate_recommendation method.                          *)

ServiceDescriptions == {"web app", "chat bot"}

\* _generate_cache_key, lines 32-40; the md5 digest is taken as one-to-one
cache_key(description) == "recommendation:" \o description

CacheKeys == {cache_key(description) : description \in ServiceDescriptions}

\* a dict by its keys
Dict(keys) == [type |-> "dict", keys |-> keys]

\* the required fields of TechStackRecommendation, models/recommendation.py
model_fields == {"primary_stack", "alternatives", "explanation", "confidence"}

\* the attributes get_recommendation reads of what the engine returned, lines 63-72
attributes_read == {"confidence_level", "explanation", "primary_tech_stack"}

\* TechStackRecommendation(**cached), line 47
recommendation_from(cached) ==
    IF model_fields \subseteq cached.keys
    THEN [raises |-> "", value |-> [type |-> "TechStackRecommendation", fields |-> cached.keys]]
    ELSE [raises |-> "ValidationError", value |-> None]

\* what self.engine.generate_recommendation(description, requirements, constraints,
\* processed_data) does: it raises, or returns an object with attributes and, when
\* it has a dict method, the dict that gives
EngineRaises(exception) == [raises |-> exception, attributes |-> {}, dict |-> Dict({})]
EngineReturns(attributes, dict) == [raises |-> "", attributes |-> attributes, dict |-> dict]

EngineOutcomes ==
    {EngineRaises("TypeError"),      \* RecommendationEngine: takes 3 arguments, given 4
     EngineRaises("RuntimeError"),
     EngineReturns({"keys", "get"}, Dict({})),                       \* a plain dict
     EngineReturns(model_fields \cup {"dict"}, Dict(model_fields)),  \* TechStackRecommendation
     EngineReturns(attributes_read, Dict({})),
     EngineReturns(attributes_read \cup {"dict"}, Dict(model_fields)),
     EngineReturns(attributes_read \cup {"dict"}, Dict(attributes_read)),
     EngineReturns(attributes_read \cup {"dict"}, Dict({}))}

\* Redis answers or fails, the engine does one of the above, the database commits
\* or fails
ServiceSurroundings ==
    [redis_get : BOOLEAN, engine : EngineOutcomes, commit : BOOLEAN, redis_set : BOOLEAN]

\* CacheService.get(key), lines 15-50: the value stored, None when there is none or
\* when Redis fails
cache_get(stored, key, redis_answers) ==
    IF redis_answers THEN stored[key] ELSE Absent

\* CacheService.set(key, value), lines 52-93: stored unless Redis fails
cache_set(stored, key, value, redis_answers) ==
    IF redis_answers THEN [stored EXCEPT ![key] = Present(value)] ELSE stored

\* if cached: (line 45) - a value that is not None and not an empty dict
is_hit(cached) == cached.present /\ cached.value.keys # {}

\* mutant: the result is cached although the database write failed
cached_anyway(stored, key, value) == cache_set(stored, key, value, TRUE)

\* create_recommendation raised (recommendation_repository.py, lines 45-52): line 72
\* of get_recommendation is not reached
after_failed_write(stored, key, value) == stored

\* get_recommendation(description), lines 42-73: the cache and the database after
\* the call, the calls made in their order, and what is returned or raised
get_recommendation(stored, records, description, around) ==
    LET key == cache_key(description)
        cached == cache_get(stored, key, around.redis_get)
        engine == around.engine
        up_to_engine == <<"cache.get", "process_github_data", "engine.generate_recommendation">>
        up_to_write == up_to_engine \o <<"create_recommendation">>
        outcome(cache_after, records_after, log, exception, value) ==
            [cache |-> cache_after, database |-> records_after, calls |-> log,
             cached |-> cached, raises |-> exception, value |-> value]
    IN  IF is_hit(cached)
        THEN outcome(stored, records, <<"cache.get">>,
                     recommendation_from(cached.value).raises,
                     recommendation_from(cached.value).value)
        ELSE IF engine.raises # ""
        THEN outcome(stored, records, up_to_engine, engine.raises, None)
        ELSE IF ~(attributes_read \subseteq engine.attributes)
        THEN outcome(stored, records, up_to_engine, "AttributeError", None)
        ELSE IF ~around.commit
        THEN outcome(after_failed_write(stored, key, engine.dict), records, up_to_write,
                     "SQLAlchemyError", None)
        ELSE IF "dict" \notin engine.attributes
        THEN outcome(stored, Append(records, description), up_to_write,
                     "AttributeError", None)
        ELSE outcome(cache_set(stored, key, engine.dict, around.redis_set),
                     Append(records, description), up_to_write \o <<"cache.set">>,
                     "", [type |-> "object", fields |-> engine.attributes])

ServiceInit ==
    /\ project_data = <<>>
    /\ project_embeddings = <<>>
    /\ pc = "IDLE"
    /\ request = None
    /\ github_outcome = None
    /\ github_projects = <<>>
    /\ perplexity_response = None
    /\ cohere_response = None
    /\ llm_recommendation = None
    /\ embedding_works = TRUE
    /\ local_rec = None
    /\ final_recommendation = None
    /\ result = None
    /\ raised = None
    /\ calls = <<>>
    /\ nrequests = 0
    /\ corpus_file = UnreadableFile
    /\ stubs = None
    /\ remembered = None
    /\ clock = 0
    /\ limiter = None
    /\ threads = <<>>
    /\ history = <<>>
    /\ cache = [key \in CacheKeys |-> Absent]
    /\ database = <<>>
    /\ collector = None
    /\ locals = None

\* a request is served by get_recommendation; the method has no await, so it runs
\* to its end before another request is taken up
GetRecommendation ==
    /\ nrequests < MaxServiceRequests
    /\ \E description \in ServiceDescriptions, around \in ServiceSurroundings :
          LET call == get_recommendation(cache, database, description, around)
          IN  /\ request' = [description |-> description]
              /\ locals' = [cached |-> call.cached]
              /\ cache' = call.cache
              /\ database' = call.database
              /\ calls' = call.calls
              /\ IF call.raises = ""
                 THEN result' = call.value /\ raised' = None /\ pc' = "DONE"
                 ELSE result' = None /\ raised' = Raises(call.raises) /\ pc' = "RAISED"
    /\ nrequests' = nrequests + 1
    /\ UNCHANGED <<engine_state, limiter_vars, collector>>

\* the time to live of an entry (setex, cache_service.py line 66) runs out
Expire ==
    /\ \E key \in CacheKeys :
          /\ cache[key].present
          /\ cache' = [cache EXCEPT ![key] = Absent]
    /\ UNCHANGED <<engine_state, pc, request, result, raised, calls, nrequests,
                   limiter_vars, database, collector_vars>>

ServiceNext ==
    \/ GetRecommendation
    \/ Expire

ServiceSpec == ServiceInit /\ [][ServiceNext]_vars

-----------------------------------------------------------------------------
(* Vocabulary of the properties *)

without_whitespace(text) == SelectSeq(text, LAMBDA p : p # Ws)

\* the answer arrived and is one JSON object, bare or wrapped in a json code fence
AnswersJsonObject(response) ==
    /\ response.kind = "text"
    /\ LET t == without_whitespace(response.text)
       IN  \E k \in 1..Len(t) :
              /\ t[k].piece = "json"
              /\ t[k].value.type = "object"
              /\ SubSeq(t, 1, k - 1) \in {<<>>, <<FenceJson>>}
              /\ SubSeq(t, k + 1, Len(t)) \in {<<>>, <<Fence>>}

\* the members of that JSON object
AnswerMembers(response) ==
    LET t == without_whitespace(response.text)
    IN  t[CHOOSE k \in 1..Len(t) : t[k].piece = "json"].value.members

PerplexityAttempted == perplexity_response # None
CohereAttempted == cohere_response # None
PerplexitySucceeded == PerplexityAttempted /\ AnswersJsonObject(perplexity_response)
CohereSucceeded == CohereAttempted /\ AnswersJsonObject(cohere_response)
PerplexityFailed == PerplexityAttempted /\ ~AnswersJsonObject(perplexity_response)
CohereFailed == CohereAttempted /\ ~AnswersJsonObject(cohere_response)
AllProvidersFailed == PerplexityFailed /\ CohereFailed

Called(name) == \E i \in 1..Len(calls) : calls[i] = name
CalledBefore(first, second) ==
    \A j \in 1..Len(calls) :
        calls[j] = second => \E i \in 1..(j - 1) : calls[i] = first

RecommendationKeys ==
    {"primary_tech_stack", "alternatives", "explanation", "detailed_explanation",
     "confidence_level", "similar_projects"}

\* the states of the orchestrator named by the design
TryProviders == {"TRY_PERPLEXITY", "TRY_COHERE"}

-----------------------------------------------------------------------------
(* Properties *)

\* C1: the providers are tried in the order Perplexity, Cohere, and the chain stops
\* at the first success: once Perplexity has answered a parseable JSON object, Cohere
\* is neither attempted nor called in that request.
C1_FirstSuccessStopsChain ==
    /\ CohereAttempted => PerplexityAttempted
    /\ CalledBefore("perplexity", "cohere") \/ ~Called("perplexity")
    /\ PerplexitySucceeded =>
          /\ ~CohereAttempted
          /\ ~Called("cohere")
          /\ pc # "TRY_COHERE"

C1_Witness ==
    /\ pc = "DONE"
    /\ PerplexitySucceeded
    /\ Called("perplexity")
    /\ ~CohereAttempted

\* C2: when every provider failed and the embedding function works, the call ends by
\* returning a Recommendation with all six fields whose stack and alternatives are
\* those of the local aggregation, and no exception leaves it.
C2_TotalFailureFallsBack ==
    (AllProvidersFailed /\ embedding_works) =>
        /\ pc \in {"LOCAL_FALLBACK", "ASSEMBLE", "DONE"}
        /\ raised = None
        /\ pc = "DONE" =>
              /\ DOMAIN result = RecommendationKeys
              /\ local_rec # None
              /\ result.primary_tech_stack = local_rec.primary_tech_stack
              /\ result.alternatives = local_rec.alternatives
              /\ result.explanation = "generated from our local dataset"

C2_Witness ==
    /\ pc = "DONE"
    /\ AllProvidersFailed
    /\ project_data # <<>>
    /\ result.primary_tech_stack # <<>>

\* C3: a request moves FETCH_EVIDENCE, TRY_PROVIDERS, then SUCCESS or LOCAL_FALLBACK
\* (never both), then ASSEMBLE, then DONE, never backwards and skipping nothing
\* (a request whose embedding call throws leaves the order at LOCAL_FALLBACK); the
\* GitHub stage is the first collaborator called, before any provider; and the local
\* corpus query and aggregation run exactly when every provider has failed.
C3_Order ==
    /\ pc = "FETCH_EVIDENCE" => pc' \in {"FETCH_EVIDENCE", "TRY_PERPLEXITY"}
    /\ pc = "TRY_PERPLEXITY" =>
          pc' \in {"TRY_PERPLEXITY", "TRY_COHERE", "SUCCESS", "LOCAL_FALLBACK"}
    /\ pc = "TRY_COHERE" => pc' \in {"TRY_COHERE", "SUCCESS", "LOCAL_FALLBACK"}
    /\ pc = "SUCCESS" => pc' \in {"SUCCESS", "ASSEMBLE"}
    /\ pc = "LOCAL_FALLBACK" =>
          \/ pc' \in {"LOCAL_FALLBACK", "ASSEMBLE"}
          \/ pc' = "RAISED" /\ ~embedding_works'
    /\ pc = "ASSEMBLE" => pc' \in {"ASSEMBLE", "DONE"}
    /\ pc' = "TRY_PERPLEXITY" => pc \in {"FETCH_EVIDENCE", "TRY_PERPLEXITY"}

C3_Calls ==
    /\ (PerplexityAttempted \/ CohereAttempted) =>
          github_outcome # None /\ calls[1] = "GitHubCollector"
    /\ pc \in TryProviders \cup {"SUCCESS", "LOCAL_FALLBACK", "ASSEMBLE", "DONE"} =>
          calls # <<>> /\ calls[1] = "GitHubCollector"
    /\ CalledBefore("GitHubCollector", "perplexity")
    /\ CalledBefore("GitHubCollector", "cohere")
    /\ (Called("_generate_local_recommendation") \/ Called("find_similar_projects")
          \/ pc = "LOCAL_FALLBACK" \/ local_rec # None)
          => AllProvidersFailed
    /\ (AllProvidersFailed /\ pc \in {"ASSEMBLE", "DONE"}) =>
          /\ Called("_generate_local_recommendation")
          /\ Called("find_similar_projects")
          /\ local_rec # None

C3_StateOrder == [][C3_Order]_vars /\ []C3_Calls

C3_Witness ==
    /\ pc = "DONE"
    /\ AllProvidersFailed
    /\ Called("search_projects")
    /\ Called("perplexity")
    /\ Called("cohere")
    /\ Called("find_similar_projects")

\* C4: an error inside a provider call (missing credential, timeout, non-2xx status,
\* a text that is no JSON object) never leaves generate_recommendation; after an
\* error of Perplexity Cohere is attempted, after an error of Cohere the local
\* fallback runs.
C4_ProviderErrorsAbsorbed ==
    /\ raised # None => raised.exception = "RuntimeError" /\ Called("encode")
    /\ PerplexityFailed => pc = "TRY_COHERE" \/ CohereAttempted
    /\ CohereFailed => pc = "LOCAL_FALLBACK" \/ Called("_generate_local_recommendation")

C4_Witness ==
    /\ pc = "DONE"
    /\ PerplexityFailed
    /\ perplexity_response.kind = "text"
    /\ CohereFailed
    /\ cohere_response.kind = "timeout"
    /\ raised = None

\* C5: an answer that is a JSON object without primary_tech_stack or without
\* explanation is a failure of that provider: after such an answer of Perplexity
\* Cohere is attempted, after such an answer of Cohere the local fallback runs.
LacksExpectedKeys(response) ==
    /\ AnswersJsonObject(response)
    /\ ~({"primary_tech_stack", "explanation"} \subseteq DOMAIN AnswerMembers(response))

C5_MissingKeysFail ==
    /\ (PerplexityAttempted /\ LacksExpectedKeys(perplexity_response)) =>
          pc = "TRY_COHERE" \/ CohereAttempted
    /\ (CohereAttempted /\ LacksExpectedKeys(cohere_response)) =>
          pc = "LOCAL_FALLBACK" \/ Called("_generate_local_recommendation")

\* C6: a failure of the remote evidence search (no token, network error, rate limit,
\* error status) never aborts the request: the evidence is empty, no exception leaves
\* stage 1, and the request stands at the first provider as after a successful search.
GithubFailed ==
    /\ github_outcome # None
    /\ github_outcome.kind \in {"no_token", "network_error", "rate_limited", "http_error"}

C6_EvidenceFailureNotFatal ==
    /\ github_outcome # None => pc = "TRY_PERPLEXITY" \/ PerplexityAttempted
    /\ GithubFailed => github_projects = <<>>
    /\ (GithubFailed /\ raised # None) => Called("encode")

C6_Witness ==
    /\ pc = "DONE"
    /\ GithubFailed
    /\ github_outcome.kind = "no_token"
    /\ result # None

\* C7: when a provider succeeded the response holds that provider's stack, no
\* alternatives, exactly the remote evidence as similar_projects, and the confidence
\* 0.8 after Perplexity, 0.75 after Cohere; the local aggregation took no part.
C7_SuccessAssembly ==
    (pc = "DONE" /\ (PerplexitySucceeded \/ CohereSucceeded)) =>
        LET winner == IF PerplexitySucceeded THEN perplexity_response ELSE cohere_response
            members == AnswerMembers(winner)
        IN  /\ "primary_tech_stack" \in DOMAIN members =>
                  result.primary_tech_stack = members.primary_tech_stack
            /\ result.alternatives = NoAlternatives
            /\ result.similar_projects = github_projects
            /\ result.confidence_level = (IF PerplexitySucceeded THEN 80 ELSE 75)
            /\ local_rec = None

C7_Witness ==
    /\ pc = "DONE"
    /\ PerplexityFailed
    /\ CohereSucceeded
    /\ github_projects # <<>>
    /\ result.primary_tech_stack = StackFlask

\* C8: on the local path similar_projects is the remote evidence when there is any
\* and the similar projects of the local aggregator otherwise; the stack and the
\* alternatives are the local aggregator's.
C8_FallbackAssembly ==
    (pc = "DONE" /\ AllProvidersFailed) =>
        /\ github_projects # <<>> => result.similar_projects = github_projects
        /\ github_projects = <<>> => result.similar_projects = local_rec.similar_projects
        /\ result.primary_tech_stack = local_rec.primary_tech_stack
        /\ result.alternatives = local_rec.alternatives

C8_Witness ==
    /\ pc = "DONE"
    /\ AllProvidersFailed
    /\ github_outcome.kind = "ok"
    /\ github_projects = <<>>
    /\ result.similar_projects # <<>>
    /\ result.similar_projects = local_rec.similar_projects

\* C9: when every provider failed and the corpus is empty, the returned
\* Recommendation has an empty stack, no alternatives and confidence exactly 0.0.
C9_EmptyCorpusZeroConfidence ==
    (pc = "DONE" /\ AllProvidersFailed /\ project_data = <<>>) =>
        /\ result.primary_tech_stack = <<>>
        /\ result.alternatives = NoAlternatives
        /\ result.confidence_level = 0

\* C10: when every provider failed and the corpus is not empty, the returned
\* confidence is 0.6*min(n/5,1) + 0.4*min(c/10,1), n the number of similar projects
\* and c the count of the most frequent technology (in hundredths: 12*min(n,5) +
\* 4*min(c,10)), and lies in [0,1].
Smaller(a, b) == IF a < b THEN a ELSE b

TopTechnologyCount(projects, constraints) ==
    LET counters == tech_counter(projects, constraint_list(constraints))
        counts == UNION {{counters[cat][k].count : k \in 1..Len(counters[cat])} :
                            cat \in CategorySet}
    IN  IF counts = {} THEN 0 ELSE CHOOSE m \in counts : \A x \in counts : x <= m

WeightedConfidence(n, c) == 12 * Smaller(n, 5) + 4 * Smaller(c, 10)

C10_WeightedConfidence ==
    (pc = "DONE" /\ AllProvidersFailed /\ project_data # <<>>) =>
        /\ result.confidence_level =
              WeightedConfidence(Len(local_rec.similar_projects),
                                 TopTechnologyCount(local_rec.similar_projects,
                                                    request.constraints))
        /\ result.confidence_level \in 0..100

-----------------------------------------------------------------------------
(* Properties of the local aggregator and of the corpus query, called directly *)

\* the tokens a constraints mapping gives for one category
scoped_tokens(constraints, cat) ==
    concat_all([i \in 1..Len(constraints) |->
                   IF constraints[i][1] = cat THEN constraints[i][2].items ELSE <<>>])

\* the technology case-insensitively contains a token scoped to its category
ExcludedByConstraint(name, cat, constraints) ==
    LET tokens == scoped_tokens(constraints, cat)
    IN  \E k \in 1..Len(tokens) : str_in(lower(tokens[k]), lower(name))

\* the entries of a primary stack for one category
EntriesOf(stack, cat) == SelectSeq(stack, LAMBDA e : e.category = cat)

\* how often a technology occurs, case-insensitively, in one category of the projects
OccurrenceCount(name, cat, projects) ==
    Cardinality(UNION {{<<p, i>> : i \in {x \in 1..Len(projects[p].techs[cat]) :
                                          lower(projects[p].techs[cat][x]) = lower(name)}} :
                       p \in 1..Len(projects)})

\* the technologies the projects list in one category, lowercased
TechnologiesOf(cat, projects) ==
    UNION {{lower(projects[p].techs[cat][i]) : i \in 1..Len(projects[p].techs[cat])} :
           p \in 1..Len(projects)}

Aggregated == pc = "AGGREGATED"

Queried == pc = "QUERIED"

\* the similarity of a record to the query of the running call
SimilarityOf(record) ==
    cosine_similarity(encode(request.description), encode(record.description))

\* C11: for every set of similar projects and every constraints mapping, neither the
\* primary stack nor the alternatives of the local aggregator hold a technology that
\* case-insensitively contains a constraint token scoped to its category, also when
\* every candidate of every category is excluded.
C11_ConstrainedOutNeverListed ==
    Aggregated =>
        /\ \A k \in 1..Len(result.primary_tech_stack) :
              ~ExcludedByConstraint(result.primary_tech_stack[k].name,
                                    result.primary_tech_stack[k].category,
                                    request.constraints)
        /\ \A cat \in CategorySet : \A k \in 1..Len(result.alternatives[cat]) :
              ~ExcludedByConstraint(result.alternatives[cat][k].name, cat,
                                    request.constraints)

\* C12: when a constraint names one technology for a category (a string value, as in
\* frontend: angular), the entry of the primary stack for that category is exactly
\* that technology, whatever the counts in the similar projects are: no entry of that
\* category names another technology, and there is an entry when there are similar
\* projects.
C12_NamedTechnologyIsPrimary ==
    Aggregated =>
        \A i \in 1..Len(request.constraints) :
            LET cat == request.constraints[i][1]
                value == request.constraints[i][2]
                entries == EntriesOf(result.primary_tech_stack, cat)
            IN  ~value.is_list =>
                    /\ \A k \in 1..Len(entries) :
                          lower(entries[k].name) = lower(value.items[1])
                    /\ result.similar_projects # <<>> => entries # <<>>

\* C13: without constraints, every category in which the similar projects list a
\* technology has one primary entry, a technology of the highest case-insensitive
\* occurrence count of that category, and the alternatives of a category come in
\* non-increasing order of occurrence count, none above the primary.
C13_MostFrequentFirst ==
    (Aggregated /\ request.constraints = <<>>) =>
        \A cat \in CategorySet :
            LET projects == result.similar_projects
                entries == EntriesOf(result.primary_tech_stack, cat)
                alts == result.alternatives[cat]
                Count(name) == OccurrenceCount(name, cat, projects)
            IN  /\ Len(entries) = (IF TechnologiesOf(cat, projects) = {} THEN 0 ELSE 1)
                /\ \A k \in 1..Len(entries) :
                      /\ lower(entries[k].name) \in TechnologiesOf(cat, projects)
                      /\ \A t \in TechnologiesOf(cat, projects) :
                            Count(t) <= Count(entries[k].name)
                      /\ \A m \in 1..Len(alts) : Count(alts[m].name) <= Count(entries[k].name)
                /\ \A k \in 1..Len(alts) : \A m \in k..Len(alts) :
                      Count(alts[m].name) <= Count(alts[k].name)
                /\ \A k \in 1..Len(alts) : Count(alts[k].name) >= 1

C13_Witness ==
    /\ Aggregated
    /\ request.constraints = <<>>
    /\ LET projects == result.similar_projects
           entries == EntriesOf(result.primary_tech_stack, "frontend")
           alts == result.alternatives["frontend"]
       IN  /\ Len(entries) = 1
           /\ Len(alts) = 3
           /\ OccurrenceCount(entries[1].name, "frontend", projects)
                 > OccurrenceCount(alts[1].name, "frontend", projects)
           /\ OccurrenceCount(alts[1].name, "frontend", projects)
                 > OccurrenceCount(alts[3].name, "frontend", projects)

\* C14: the local aggregator lists alternatives only for categories that have an
\* entry in the primary stack, at most 3 per category, and never the technology that
\* is the primary of that category.
C14_AlternativesBesidePrimary ==
    Aggregated =>
        \A cat \in CategorySet :
            LET entries == EntriesOf(result.primary_tech_stack, cat)
                alts == result.alternatives[cat]
            IN  /\ alts # <<>> => entries # <<>>
                /\ Len(alts) <= 3
                /\ \A k \in 1..Len(alts) : \A e \in 1..Len(entries) :
                      lower(alts[k].name) # lower(entries[e].name)
                /\ \A k \in 1..Len(alts) : \A m \in 1..Len(alts) :
                      k # m => alts[k].name # alts[m].name

C14_Witness ==
    /\ Aggregated
    /\ request.constraints # <<>>
    /\ Len(result.alternatives["frontend"]) = 3
    /\ Cardinality(TechnologiesOf("frontend", result.similar_projects)) >= 5
    /\ EntriesOf(result.primary_tech_stack, "frontend") # <<>>

\* C15: on a corpus that is not empty, find_similar_projects(text, top_n) returns at
\* most top_n records (as many as the corpus allows), all records of the corpus and
\* no record twice, in non-increasing order of similarity to the query, and no record
\* left out is more similar than a record returned.
C15_TopNBySimilarity ==
    (Queried /\ project_data # <<>>) =>
        /\ Len(result) <= request.top_n
        /\ Len(result) = (IF request.top_n < Len(project_data)
                          THEN request.top_n ELSE Len(project_data))
        /\ \A k \in 1..Len(result) : \E i \in 1..Len(project_data) : project_data[i] = result[k]
        /\ \A k \in 1..Len(result) : \A m \in 1..Len(result) : k # m => result[k] # result[m]
        /\ \A k \in 1..Len(result) : \A m \in k..Len(result) :
              SimilarityOf(result[m]) <= SimilarityOf(result[k])
        /\ \A i \in 1..Len(project_data) :
              (\A k \in 1..Len(result) : result[k] # project_data[i]) =>
                  \A k \in 1..Len(result) :
                      SimilarityOf(project_data[i]) <= SimilarityOf(result[k])

C15_Witness ==
    /\ Queried
    /\ request.top_n >= 2
    /\ Len(project_data) > request.top_n
    /\ Len(result) = request.top_n
    /\ SimilarityOf(result[1]) > SimilarityOf(result[Len(result)])
    /\ \E i \in 1..Len(project_data) :
          SimilarityOf(project_data[i]) < SimilarityOf(result[Len(result)])
    /\ result[1] # project_data[1]

\* C16: a corpus query on an empty corpus, and a corpus query with the empty text on
\* any corpus (the embedding function being in order), returns the empty sequence
\* and raises nothing.
QueryCalled == request # None /\ "top_n" \in DOMAIN request

C16_EmptyQueryGivesNothing ==
    /\ (QueryCalled /\ project_data = <<>>) =>
          Queried /\ raised = None /\ result = <<>>
    /\ (QueryCalled /\ request.description = "" /\ embedding_works) =>
          Queried /\ raised = None /\ result = <<>>

-----------------------------------------------------------------------------
(* Properties of repeated calls on one engine *)

-----------------------------------------------------------------------------
(* Properties of the corpus as shared state, and of the endpoint *)

\* C18: no step of any request changes the shared corpus records after the initial
\* load: project_data is the same before and after every step of
\* generate_recommendation.
C18_CorpusNeverMutated == [][project_data' = project_data]_vars

\* C19: a failure of the corpus or of the embedding function is fatal and not
\* masked: an engine whose corpus source could not be read never returns a
\* Recommendation, and a call in which the embedding function throws ends with an
\* exception and without a Recommendation.
C19_CorpusFailureIsFatal ==
    /\ ~corpus_file.readable => (result = None /\ pc # "DONE")
    /\ (Called("encode") /\ ~embedding_works) =>
          (pc = "RAISED" /\ raised # None /\ result = None)

\* C20: a request whose description is empty or made of blanks only is rejected with
\* a validation error before the pipeline is entered: the handler never reaches the
\* call of the engine, and nothing is called for it.
IsBlank(description) == \A i \in 1..Len(description) : description[i] = " "

C20_BlankDescriptionRejected ==
    (request # None /\ IsBlank(request.description)) =>
        /\ pc \in {"SCHEMA", "HANDLER", "REJECTED"}
        /\ calls = <<>>
        /\ pc = "REJECTED" =>
              raised \in {Raises("RequestValidationError"), Raises("ValidationException")}

C20_Witness ==
    /\ request # None
    /\ IsBlank(request.description)
    /\ Len(request.description) >= 10
    /\ pc = "REJECTED"
    /\ raised = Raises("ValidationException")

-----------------------------------------------------------------------------
(* Properties of the returned object *)

\* C22: whichever path a request takes, what it returns has the six fields of a
\* Recommendation; a call that raises returns nothing; and the fields come from one
\* side only: after a provider succeeded the stack, the detailed explanation and the
\* confidence are the provider's, there are no alternatives and the local aggregation
\* did not run; on the local path the stack and the alternatives are the local
\* aggregation's and no field is a provider's.
C22_UniformShape ==
    /\ pc # "DONE" => result = None
    /\ pc = "RAISED" => raised # None
    /\ pc = "DONE" =>
          /\ raised = None
          /\ DOMAIN result = RecommendationKeys
          /\ IF llm_recommendation # None
             THEN /\ local_rec = None
                  /\ result.primary_tech_stack = llm_recommendation.primary_tech_stack
                  /\ result.detailed_explanation = llm_recommendation.detailed_explanation
                  /\ result.confidence_level = llm_recommendation.confidence_level
                  /\ result.alternatives = NoAlternatives
                  /\ result.explanation = "generated by our StackSense AI"
                  /\ result.similar_projects = github_projects
             ELSE /\ local_rec # None
                  /\ result.primary_tech_stack = local_rec.primary_tech_stack
                  /\ result.alternatives = local_rec.alternatives
                  /\ result.detailed_explanation = None
                  /\ result.confidence_level = FallbackConfidence
                  /\ result.explanation = "generated from our local dataset"

C22_Witness ==
    /\ pc = "DONE"
    /\ nrequests = 2
    /\ llm_recommendation # None
    /\ perplexity_response.kind = "text"
    /\ CohereSucceeded
    /\ project_data # <<>>
    /\ result.primary_tech_stack # <<>>

-----------------------------------------------------------------------------
(* Properties of the outbound calls *)

InsideCall == pc \notin {"IDLE", "DONE", "RAISED"}

\* C21: a request never hangs on a remote service that does not respond: whichever
\* services respond, every call of generate_recommendation that has started
\* eventually returns a Recommendation or raises.
C21_EveryRequestReturns == InsideCall ~> (pc \in {"DONE", "RAISED"})

\* the requests and the sleeps of the running collector call
RequestsSent == Cardinality({i \in 1..Len(calls) : calls[i].call = "requests.get"
                                                    /\ calls[i].url # "languages_url"})
Sleeps == Cardinality({i \in 1..Len(calls) : calls[i].call = "time.sleep"})

Returned(method) == pc = "RETURNED" /\ request.method = method

\* C23: when the search request of search_projects is answered with a rate-limit
\* response (403 with X-RateLimit-Remaining 0), the method sends no further search
\* request, does not sleep, and returns an empty list.
C23_RateLimitedSearchBacksOff ==
    (Returned("search_projects") /\ is_rate_limit_response(request.answers[1])) =>
        /\ RequestsSent = 1
        /\ Sleeps = 0
        /\ result = PyList(<<>>)

C23_Witness ==
    /\ Returned("search_projects")
    /\ is_rate_limit_response(request.answers[1])
    /\ has_header(request.answers[1].headers, "X-RateLimit-Reset")
    /\ Len(calls) = 1

\* C29: get_popular_repos sends at most max_retries (3) search requests and returns
\* a list on every path, so that collect can iterate over the result.
C29_PopularReposReturnsList ==
    (request # None /\ request.method = "get_popular_repos") =>
        /\ RequestsSent <= 3
        /\ pc = "RETURNED" => result.type = "list"
        /\ raised = None

\* the answers of the running _make_request call that make it call itself again
IsRetried(http) ==
    \/ http.raises = "Timeout"
    \/ http.raises = "" /\ http.status = 429

Retried == Cardinality({i \in 1..Len(request.answers) : IsRetried(request.answers[i])})

InMakeRequest == request # None /\ request.method = "_make_request"

\* C30: a top-level call of _make_request terminates and sends at most max_retries
\* (3) HTTP requests; every 429 answer and every timeout that is retried adds one
\* to retry_count; the invocation that finds retry_count at max_retries returns
\* None without sending a request.
C30_BoundedRetries ==
    /\ [](InMakeRequest =>
            /\ RequestsSent <= StackOverflowMaxRetries
            /\ RequestsSent = Len(request.answers)
            /\ pc = "MAKE_REQUEST" =>
                  /\ locals.retry_count = Retried
                  /\ locals.retry_count = Len(request.answers)
            /\ locals.retry_count = StackOverflowMaxRetries =>
                  /\ RequestsSent = StackOverflowMaxRetries
                  /\ pc = "RETURNED" => result = PyNone)
    /\ (pc = "MAKE_REQUEST") ~> (pc = "RETURNED")

C30_Witness ==
    /\ InMakeRequest
    /\ pc = "RETURNED"
    /\ locals.retry_count = StackOverflowMaxRetries
    /\ RequestsSent = StackOverflowMaxRetries
    /\ request.answers[1].raises = "Timeout"
    /\ request.answers[3].raises = ""
    /\ result = PyNone

\* the finished calls of is_allowed for ip
CallsOf(ip) == {i \in 1..Len(history) : history[i].ip = ip}
GrantedOf(ip) == {i \in CallsOf(ip) : history[i].granted}

\* the calls that lie, from the reading of the clock at line 16 to the return, in
\* the window [from, from + time_window)
Within(from, called) ==
    {i \in called : /\ from <= history[i].current_time
                    /\ history[i].end < from + limiter.time_window}

\* C24: for every IP, the granted calls of is_allowed within any window of
\* time_window seconds are at most max_requests; and when all the calls for an IP,
\* made by concurrent threads, lie within one window, exactly max_requests of them
\* are granted (all of them when they are fewer).
C24_AtMostMaxRequestsPerWindow ==
    \A ip \in IPs :
       /\ \A from \in 0..MaxClock :
             Cardinality(Within(from, GrantedOf(ip))) <= limiter.max_requests
       /\ (\E from \in 0..MaxClock : Within(from, CallsOf(ip)) = CallsOf(ip)) =>
             Cardinality(GrantedOf(ip)) =
                IF Cardinality(CallsOf(ip)) < limiter.max_requests
                THEN Cardinality(CallsOf(ip)) ELSE limiter.max_requests

C24_Witness ==
    /\ limiter.max_requests = 2
    /\ \E ip \in IPs :
          /\ Cardinality(CallsOf(ip)) = 3
          /\ Cardinality(GrantedOf(ip)) = 2
          /\ \E i \in CallsOf(ip) : history[i].current_time < history[i].end
          /\ \E from \in 0..MaxClock : Within(from, CallsOf(ip)) = CallsOf(ip)

\* the call of thread t returns in this step
Returning(t) == threads[t].pc = "locked" /\ threads'[t].pc = "idle"

\* the list of ip, empty when the key is not there
ListOf(self, ip) == IF self.requests[ip].present THEN self.requests[ip].value ELSE <<>>

AllOlder(timestamps, now) ==
    \A k \in 1..Len(timestamps) : now - timestamps[k] >= limiter.time_window

WasBlocked(ip) == \E i \in CallsOf(ip) : ~history[i].granted

\* the owner's cleanup() is the step that changes the limiter and no thread
CleanupCalled == limiter' # limiter /\ threads' = threads

\* C25: a call for an IP that was blocked is granted when time_window seconds have
\* passed since every timestamp recorded for the IP; and cleanup() deletes every IP
\* whose timestamps are all that old, and keeps of every other IP exactly the
\* timestamps that are younger.
C25_WindowElapses ==
    /\ [][\A t \in LimiterThreads :
             (/\ Returning(t)
              /\ WasBlocked(threads[t].ip)
              /\ ListOf(limiter, threads[t].ip) # <<>>
              /\ AllOlder(ListOf(limiter, threads[t].ip), threads[t].current_time))
             => history'[Len(history')].granted]_vars
    /\ [][CleanupCalled =>
             \A ip \in IPs :
                limiter.requests[ip].present =>
                   IF AllOlder(limiter.requests[ip].value, clock)
                   THEN limiter'.requests[ip] = Absent
                   ELSE /\ limiter'.requests[ip].present
                        /\ limiter'.requests[ip].value =
                              SelectSeq(limiter.requests[ip].value,
                                        LAMBDA timestamp : ~AllOlder(<<timestamp>>, clock))]_vars

C25_Witness ==
    /\ limiter.time_window > 0
    /\ \E ip \in IPs : \E i, j \in CallsOf(ip) :
          /\ i < j
          /\ ~history[i].granted
          /\ history[j].granted
          /\ history[j].current_time - history[i].end >= limiter.time_window
          /\ limiter.requests[ip] = Present(<<history[j].current_time>>)

\* C27: with max_requests > 0 the list of every IP never holds more than
\* max_requests timestamps; and a call that is denied adds no timestamp to the list
\* of its IP.
C27_ListBounded ==
    /\ [](limiter.max_requests > 0 =>
             \A ip \in IPs : Len(ListOf(limiter, ip)) <= limiter.max_requests)
    /\ [][\A t \in LimiterThreads :
             (Returning(t) /\ ~history'[Len(history')].granted) =>
                /\ Len(ListOf(limiter', threads[t].ip)) <= Len(ListOf(limiter, threads[t].ip))
                /\ \A k \in 1..Len(ListOf(limiter', threads[t].ip)) :
                      \E m \in 1..Len(ListOf(limiter, threads[t].ip)) :
                         ListOf(limiter, threads[t].ip)[m] = ListOf(limiter', threads[t].ip)[k]]_vars

C27_Witness ==
    /\ limiter.max_requests = 2
    /\ \E ip \in IPs :
          /\ Len(ListOf(limiter, ip)) = 2
          /\ Len(history) = 3
          /\ history[3].ip = ip
          /\ ~history[3].granted
          /\ limiter.requests[ip].value[2] < history[3].current_time

\* the status and the error text the custom exceptions are to be answered with
StatusOfKind ==
    ("NotFoundException" :> <<404, "Not Found">>) @@
    ("AuthenticationException" :> <<401, "Unauthorized">>) @@
    ("AuthorizationException" :> <<403, "Forbidden">>) @@
    ("RateLimitException" :> <<429, "Too Many Requests">>)

\* C26: the ErrorHandler answers an exception raised by an endpoint with the status
\* of its kind: NotFoundException 404 'Not Found', AuthenticationException 401
\* 'Unauthorized', AuthorizationException 403 'Forbidden', RateLimitException 429
\* 'Too Many Requests'.
C26_CustomExceptionsKeepTheirStatus ==
    (pc = "ANSWERED" /\ request.raises /\ request.exception.type \in DOMAIN StatusOfKind) =>
        /\ result.status_code = StatusOfKind[request.exception.type][1]
        /\ result.error = StatusOfKind[request.exception.type][2]

\* a step that is a call of get_recommendation
ServiceCall == nrequests' = nrequests + 1

\* the call found a recommendation in the cache
Hit == locals'.cached.present /\ locals'.cached.value.keys # {}

CalledInOrder(first, second) ==
    \E i, j \in 1..Len(calls') : i < j /\ calls'[i] = first /\ calls'[j] = second

\* C28: a call of get_recommendation that finds the recommendation in the cache
\* returns it without calling the engine or creating a database record; on a miss
\* the cache is written only after the database record was created, and a call
\* that fails (in the engine or in the database write) leaves the cache as it was,
\* without an entry for the key when there was none.
C28_CacheAfterDatabase ==
    [][ServiceCall =>
          /\ Hit =>
                /\ calls' = <<"cache.get">>
                /\ database' = database
                /\ cache' = cache
                /\ pc' = "DONE" =>
                      result'.fields = cache[cache_key(request'.description)].value.keys
          /\ (\E j \in 1..Len(calls') : calls'[j] = "cache.set") =>
                /\ CalledInOrder("engine.generate_recommendation", "create_recommendation")
                /\ CalledInOrder("create_recommendation", "cache.set")
                /\ database' = Append(database, request'.description)
          /\ cache' # cache =>
                (\E j \in 1..Len(calls') : calls'[j] = "cache.set") /\ pc' = "DONE"
          /\ pc' = "RAISED" => cache' = cache]_vars

C28_Witness ==
    /\ pc = "DONE"
    /\ nrequests = 2
    /\ calls = <<"cache.get">>
    /\ locals.cached = Present(Dict(model_fields))
    /\ cache[cache_key(request.description)] = locals.cached
    /\ database = <<request.description>>

====
